---- MODULE Spec2Model ----
(***************************************************************************)
(* SoccerLens ranking and similarity subsystem.                            *)
(*                                                                         *)
(*   players/sorting.py        PlayerSortingManager (sort-option registry) *)
(*   players/vector_search.py  VectorSearchService (similarity engine)     *)
(*   players/models.py         Player (record, derived metrics, vectors)   *)
(*   players/views.py          PlayerViewSet (request layer)               *)
(*                                                                         *)
(* Numbers.  Integer columns are integers.  Float columns hold whole       *)
(* numbers in the modelled stores.  A value the database orders by is a    *)
(* fraction num/den, compared by cross-multiplication, so real division    *)
(* is exact.  Similarity scores are fixed-point thousandths (ScoreScale),  *)
(* feature-vector components fixed-point fortieths (VecScale), both        *)
(* rounded down; a player's name is its rank in the collation order.       *)
(***************************************************************************)
EXTENDS Integers, Sequences, FiniteSets, TLC

VARIABLES
    players,               \* the record store: id -> Player row
    SORT_OPTIONS,          \* PlayerSortingManager.SORT_OPTIONS: key -> entry
    db_vendor,             \* the database backend behind the querysets
    similarity_threshold,  \* VectorSearchService.similarity_threshold
    call,                  \* the operation last invoked, with its arguments
    result,                \* what that operation returned or raised, and the
                           \* queryset operations it applied to the records (ops)
    last_write             \* history: per key, the field of the last add (None: removed, never added)

vars == <<players, SORT_OPTIONS, db_vendor, similarity_threshold, call, result,
          last_write>>

\* ------------------------------------------------------------------ bounds
NumPlayers == 3

\* the longest text handed to _text_similarity
MaxTextLen == 3

\* ------------------------------------------------------------- Player rows
\* SQL NULL in a nullable numeric column (null=True)
NULL == -1

\* Python None as an argument or return value
None == "None"

\* one unit of a similarity score is 1/ScoreScale
ScoreScale == 1000

\* one unit of a feature-vector component is 1/VecScale
VecScale == 40

\* the score _fallback_similarity_search attaches: 0.5
FallbackScore == 500

\* SIMILARITY_THRESHOLD when the settings give none: 0.7
DefaultThreshold == 700

DbVendors == {"sqlite", "postgresql", "mysql"}

\* every column of the players table
ModelFields ==
    {"id", "rank", "name", "last_name", "nation", "position", "squad",
     "competition", "age", "born_year", "matches_played", "starts", "minutes",
     "minutes_per_90", "goals", "assists", "goals_assists",
     "goals_minus_penalties", "penalties_scored", "penalties_attempted",
     "yellow_cards", "red_cards", "expected_goals",
     "expected_goals_non_penalty", "expected_assists", "shots",
     "shots_on_target", "shots_on_target_percentage", "shots_per_90",
     "shots_on_target_per_90", "passes_completed", "passes_attempted",
     "pass_completion_percentage", "key_passes", "tackles", "tackles_won",
     "interceptions", "blocks", "clearances", "touches", "dribbles_attempted",
     "dribbles_successful", "dribble_success_percentage", "goals_against",
     "goals_against_per_90", "shots_faced", "saves", "save_percentage",
     "clean_sheets", "progressive_carries", "progressive_passes",
     "progressive_receptions", "style_embedding", "style_description",
     "similarity_score", "created_at", "updated_at"}

\* A row with the column defaults of the Player model; the columns without a
\* default (name, position, competition, age) carry a sample value.  The
\* rows of the model keep the columns the subsystem reads.
DefaultPlayer ==
    [id |-> 0, name |-> 1, position |-> "FW", competition |-> "L1", age |-> 25,
     matches_played |-> 0, minutes |-> 0, minutes_per_90 |-> 0,
     goals |-> 0, assists |-> 0, goals_assists |-> 0,
     shots_on_target_percentage |-> 0, pass_completion_percentage |-> 0,
     tackles |-> 0, interceptions |-> 0, dribble_success_percentage |-> 0,
     save_percentage |-> NULL,
     progressive_carries |-> 0, progressive_passes |-> 0,
     style_embedding |-> <<>>, style_description |-> <<>>,
     similarity_score |-> NULL]

\* ------------------------------------------------- the sort-option registry
Opt(display_name, field, description, category) ==
    [display_name |-> display_name, field |-> field,
     description |-> description, category |-> category]

InitialSortOptions ==
  "name"                         :> Opt("Name (A-Z)", "last_name", "Sort by last name alphabetically", "basic") @@
  "goals"                        :> Opt("Goals", "goals", "Total goals scored", "attacking") @@
  "assists"                      :> Opt("Assists", "assists", "Total assists provided", "attacking") @@
  "goals_assists"                :> Opt("Goals + Assists", "goals_assists", "Combined goals and assists", "attacking") @@
  "goals_per_90"                 :> Opt("Goals per 90", "goals_per_90", "Goals scored per 90 minutes", "attacking") @@
  "assists_per_90"               :> Opt("Assists per 90", "assists_per_90", "Assists per 90 minutes", "attacking") @@
  "goal_contribution_per_90"     :> Opt("Goal Contributions per 90", "goal_contribution_per_90", "Goals + assists per 90 minutes", "attacking") @@
  "expected_goals"               :> Opt("Expected Goals (xG)", "expected_goals", "Expected goals based on shot quality", "advanced_attacking") @@
  "expected_assists"             :> Opt("Expected Assists (xA)", "expected_assists", "Expected assists based on pass quality", "advanced_attacking") @@
  "shots_on_target_percentage"   :> Opt("Shot Accuracy %", "shots_on_target_percentage", "Percentage of shots on target", "shooting") @@
  "pass_completion_percentage"   :> Opt("Pass Accuracy %", "pass_completion_percentage", "Pass completion percentage", "passing") @@
  "key_passes"                   :> Opt("Key Passes", "key_passes", "Passes leading to shots", "passing") @@
  "tackles"                      :> Opt("Tackles", "tackles", "Total tackles made", "defensive") @@
  "interceptions"                :> Opt("Interceptions", "interceptions", "Total interceptions", "defensive") @@
  "blocks"                       :> Opt("Blocks", "blocks", "Total blocks", "defensive") @@
  "dribble_success_percentage"   :> Opt("Dribble Success %", "dribble_success_percentage", "Successful dribble percentage", "possession") @@
  "progressive_carries"          :> Opt("Progressive Carries", "progressive_carries", "Carries that advance the ball", "possession") @@
  "progressive_passes"           :> Opt("Progressive Passes", "progressive_passes", "Passes that advance the ball", "possession") @@
  "save_percentage"              :> Opt("Save %", "save_percentage", "Save percentage (goalkeepers only)", "goalkeeper") @@
  "clean_sheets"                 :> Opt("Clean Sheets", "clean_sheets", "Clean sheets kept (goalkeepers only)", "goalkeeper") @@
  "goals_against_per_90"         :> Opt("Goals Against per 90", "goals_against_per_90", "Goals conceded per 90 (goalkeepers only)", "goalkeeper") @@
  "matches_played"               :> Opt("Matches Played", "matches_played", "Total matches played", "playing_time") @@
  "minutes"                      :> Opt("Minutes Played", "minutes", "Total minutes played", "playing_time") @@
  "minutes_per_game"             :> Opt("Minutes per Game", "minutes_per_game", "Average minutes per match", "playing_time") @@
  "yellow_cards"                 :> Opt("Yellow Cards", "yellow_cards", "Total yellow cards", "discipline") @@
  "red_cards"                    :> Opt("Red Cards", "red_cards", "Total red cards", "discipline") @@
  "age"                          :> Opt("Age", "age", "Player age", "basic")

\* the field names apply_sorting hands to _apply_calculated_sort
CalculatedFields ==
    {"goals_per_90", "assists_per_90", "goal_contribution_per_90", "minutes_per_game"}

\* get_sort_options(category): `if category:` is false for None and for ""
get_sort_options(category) ==
    IF category # None /\ category # ""
    THEN [key \in {k \in DOMAIN SORT_OPTIONS : SORT_OPTIONS[k].category = category}
            |-> SORT_OPTIONS[key]]
    ELSE SORT_OPTIONS

get_categories == {SORT_OPTIONS[k].category : k \in DOMAIN SORT_OPTIONS}

is_valid_sort_option(sort_key) == sort_key \in DOMAIN SORT_OPTIONS

\* get_sort_field: the field, or the ValueError it raises
get_sort_field(sort_key) ==
    IF ~ is_valid_sort_option(sort_key)
    THEN [status |-> "ValueError", value |-> sort_key]
    ELSE [status |-> "ok", value |-> SORT_OPTIONS[sort_key].field]

\* ----------------------------------------------------------------- querysets
\* Player.objects.all()
Rows == {players[i] : i \in DOMAIN players}

\* a value the database orders by: NULL, or the fraction num/den
Val(n, d) == [null |-> FALSE, num |-> n, den |-> d]

SqlNull == [null |-> TRUE, num |-> 0, den |-> 1]

\* a stored column as an ORDER BY expression
Column(row, field) == IF row[field] = NULL THEN SqlNull ELSE Val(row[field], 1)

\* ascending ORDER BY puts NULLs first on sqlite and mysql, last on postgresql
NullsFirst == db_vendor \in {"sqlite", "mysql"}

\* a sorts strictly before b in the backend's ascending order
SqlLess(a, b) ==
    IF a.null \/ b.null
    THEN IF NullsFirst THEN a.null /\ ~ b.null ELSE ~ a.null /\ b.null
    ELSE a.num * b.den < b.num * a.den

RECURSIVE RankOrders(_, _)
\* the sequences that list every row once in ascending rank, rows of equal
\* rank in any order: the orders a database can return the rows in
RankOrders(rows, rank) ==
    IF rows = {}
    THEN {<<>>}
    ELSE LET ranks == {rank[r] : r \in rows}
             lowest == CHOOSE m \in ranks : \A n \in ranks : m <= n
             least == {r \in rows : rank[r] = lowest}
         IN  UNION {{<<r>> \o s : s \in RankOrders(rows \ {r}, rank)} : r \in least}

\* the sequences that list every row of a queryset exactly once
RowOrders(rows) == RankOrders(rows, [r \in rows |-> 0])

\* F(a) / F(b) over two integer columns: integer division on sqlite and
\* postgresql, decimal division on mysql
SqlIntDivide(a, b) ==
    IF db_vendor = "mysql" THEN Val(a, b) ELSE Val(a \div b, 1)

\* the annotations _apply_calculated_sort adds to the queryset
Annotations ==
    {"goals_per_90_calc", "assists_per_90_calc", "goal_contribution_per_90_calc",
     "minutes_per_game_calc"}

\* the value of an annotation on a row:
\* Case(When(<denominator>__gt=0, then=F(..) / F(..)), default=Value(0.0))
annotate(row, name) ==
    CASE name = "goals_per_90_calc" ->
            IF row.minutes_per_90 > 0
            THEN Val(row.goals, row.minutes_per_90) ELSE Val(0, 1)
      [] name = "assists_per_90_calc" ->
            IF row.minutes_per_90 > 0
            THEN Val(row.assists, row.minutes_per_90) ELSE Val(0, 1)
      [] name = "goal_contribution_per_90_calc" ->
            IF row.minutes_per_90 > 0
            THEN Val(row.goals_assists, row.minutes_per_90) ELSE Val(0, 1)
      [] name = "minutes_per_game_calc" ->
            IF row.matches_played > 0
            THEN SqlIntDivide(row.minutes, row.matches_played) ELSE Val(0, 1)

\* the value of an ORDER BY name on a row: an annotation or a column
OrderValue(row, sort_field) ==
    IF sort_field \in Annotations THEN annotate(row, sort_field)
                                  ELSE Column(row, sort_field)

\* queryset.order_by(sort_field) and order_by('-' + sort_field): the database
\* sorts by the one expression and gives no order among rows of equal value
order_by(rows, sort_field, descending) ==
    LET before(a, b) ==
            IF descending
            THEN SqlLess(OrderValue(b, sort_field), OrderValue(a, sort_field))
            ELSE SqlLess(OrderValue(a, sort_field), OrderValue(b, sort_field))
    IN  RankOrders(rows, [r \in rows |-> Cardinality({o \in rows : before(o, r)})])

\* queryset.order_by('-goals', '-assists'): no order among rows equal in both
order_by_goals_assists(rows) ==
    LET before(a, b) ==
            \/ a.goals > b.goals
            \/ a.goals = b.goals /\ a.assists > b.assists
    IN  RankOrders(rows, [r \in rows |-> Cardinality({o \in rows : before(o, r)})])

\* the outcome of a sorting call: status, the rows in order, the annotation
\* of each row (calculated sorts), the queryset operations applied
Sorted(s, calc, ops) == [status |-> "ok", rows |-> s, calc |-> calc, ops |-> ops]

SortError(status, ops) == [status |-> status, rows |-> <<>>, calc |-> <<>>, ops |-> ops]

\* a calculated sort that filters on the denominator instead of annotating
\* with Case/When: rows with a zero denominator leave the result
_apply_calculated_sort_filtering(rows, field, reverse) ==
    LET sort_field ==
            CASE field = "goals_per_90" -> "goals_per_90_calc"
              [] field = "assists_per_90" -> "assists_per_90_calc"
              [] field = "goal_contribution_per_90" -> "goal_contribution_per_90_calc"
              [] field = "minutes_per_game" -> "minutes_per_game_calc"
              [] OTHER -> field
        kept == {r \in rows : IF field = "minutes_per_game" THEN r.matches_played > 0
                                                            ELSE r.minutes_per_90 > 0}
    IN  {Sorted(s, [i \in 1..Len(s) |-> OrderValue(s[i], sort_field)],
                <<"filter", "annotate", "order_by">>) :
            s \in order_by(kept, sort_field, reverse)}

_apply_calculated_sort(rows, field, reverse) ==
    LET sort_field ==
            CASE field = "goals_per_90" -> "goals_per_90_calc"
              [] field = "assists_per_90" -> "assists_per_90_calc"
              [] field = "goal_contribution_per_90" -> "goal_contribution_per_90_calc"
              [] field = "minutes_per_game" -> "minutes_per_game_calc"
              [] OTHER -> field
    IN  {Sorted(s, [i \in 1..Len(s) |-> OrderValue(s[i], sort_field)],
                <<"annotate", "order_by">>) :
            s \in order_by(rows, sort_field, reverse)}

\* apply_sorting without the validity check: an unknown key falls back to
\* ordering by goals, as the list endpoint does
apply_sorting_lenient(rows, sort_key, reverse) ==
    IF ~ is_valid_sort_option(sort_key)
    THEN {Sorted(s, <<>>, <<"order_by">>) : s \in order_by(rows, "goals", TRUE)}
    ELSE LET field == get_sort_field(sort_key).value
         IN  IF field \in CalculatedFields
             THEN _apply_calculated_sort(rows, field, reverse)
             ELSE IF field \in ModelFields
             THEN {Sorted(s, <<>>, <<"order_by">>) : s \in order_by(rows, field, reverse)}
             ELSE {SortError("FieldError", <<"order_by">>)}

\* apply_sorting that takes the derived-metric path when the key, not the
\* field, is one of the four tags
apply_sorting_by_key(rows, sort_key, reverse) ==
    IF ~ is_valid_sort_option(sort_key)
    THEN {SortError("ValueError", <<>>)}
    ELSE LET field == get_sort_field(sort_key).value
         IN  IF sort_key \in CalculatedFields
             THEN _apply_calculated_sort(rows, field, reverse)
             ELSE IF field \in ModelFields
             THEN {Sorted(s, <<>>, <<"order_by">>) : s \in order_by(rows, field, reverse)}
             ELSE {SortError("FieldError", <<"order_by">>)}

\* apply_sorting: every outcome the call can have
apply_sorting(rows, sort_key, reverse) ==
    IF ~ is_valid_sort_option(sort_key)
    THEN {SortError("ValueError", <<>>)}
    ELSE LET field == get_sort_field(sort_key).value
         IN  IF field \in CalculatedFields
             THEN _apply_calculated_sort(rows, field, reverse)
             ELSE IF field \in ModelFields
             THEN {Sorted(s, <<>>, <<"order_by">>) : s \in order_by(rows, field, reverse)}
             \* order_by on a name that is no column: django's FieldError
             ELSE {SortError("FieldError", <<"order_by">>)}

\* apply_sorting from the resolved field on: every outcome of the ordering
sort_by_field(rows, field, reverse) ==
    IF field \in CalculatedFields
    THEN _apply_calculated_sort(rows, field, reverse)
    ELSE IF field \in ModelFields
    THEN {Sorted(s, <<>>, <<"order_by">>) : s \in order_by(rows, field, reverse)}
    ELSE {SortError("FieldError", <<"order_by">>)}

\* a registration that keeps an existing entry: SORT_OPTIONS.setdefault
add_sort_option_setdefault(key, display_name, field, description, category) ==
    [k \in DOMAIN SORT_OPTIONS \cup {key} |->
        IF k \in DOMAIN SORT_OPTIONS THEN SORT_OPTIONS[k]
        ELSE Opt(display_name, field, description, category)]

\* add_sort_option: the registry after SORT_OPTIONS[key] = {...}
add_sort_option(key, display_name, field, description, category) ==
    [k \in DOMAIN SORT_OPTIONS \cup {key} |->
        IF k = key THEN Opt(display_name, field, description, category)
                   ELSE SORT_OPTIONS[k]]

\* remove_sort_option: the registry after the call, and the value returned
remove_sort_option(key) ==
    IF key \in DOMAIN SORT_OPTIONS
    THEN [registry |-> [k \in DOMAIN SORT_OPTIONS \ {key} |-> SORT_OPTIONS[k]],
          value |-> TRUE]
    ELSE [registry |-> SORT_OPTIONS, value |-> FALSE]

\* ------------------------------------------------- Player derived values
\* round(n / d, 2) in hundredths: Python rounds the exact half to even
Round2(n, d) ==
    LET q == (100 * n) \div d
        r == (100 * n) % d
    IN  IF 2 * r > d \/ (2 * r = d /\ q % 2 = 1) THEN q + 1 ELSE q

\* Player.goals_per_90, in hundredths
goals_per_90(row) ==
    IF row.minutes_per_90 > 0 THEN Round2(row.goals, row.minutes_per_90) ELSE 0

\* Player.assists_per_90, in hundredths
assists_per_90(row) ==
    IF row.minutes_per_90 > 0 THEN Round2(row.assists, row.minutes_per_90) ELSE 0

Min(a, b) == IF a < b THEN a ELSE b

Max(a, b) == IF a > b THEN a ELSE b

\* 'FW' in self.position: positions are one tag or two tags joined by a comma
PositionHas(position, tag) ==
    \/ position = tag
    \/ position = "FW,MF" /\ tag \in {"FW", "MF"}
    \/ position = "MF,DF" /\ tag \in {"MF", "DF"}

\* Player.generate_style_description: the description as its sequence of words
generate_style_description(row) ==
    LET part(cond, words) == IF cond THEN words ELSE <<>>
        position_parts ==
            IF PositionHas(row.position, "FW")
            THEN <<"attacking", "player">>
                 \o part(row.goals > 10, <<"prolific", "goalscorer">>)
                 \o part(row.assists > 5, <<"creative", "playmaker">>)
            ELSE IF PositionHas(row.position, "MF")
            THEN <<"midfielder">>
                 \o part(row.assists > 5, <<"creative", "midfielder">>)
                 \o part(row.tackles > 20, <<"defensive", "midfielder">>)
            ELSE IF PositionHas(row.position, "DF")
            THEN <<"defender">>
                 \o part(row.tackles > 30, <<"strong", "tackler">>)
                 \o part(row.pass_completion_percentage > 85,
                         <<"ball-playing", "defender">>)
            ELSE IF PositionHas(row.position, "GK")
            THEN <<"goalkeeper">>
                 \o part(row.save_percentage # NULL /\ row.save_percentage > 75,
                         <<"reliable", "shot-stopper">>)
            ELSE <<>>
        description_parts ==
            position_parts
            \o part(row.dribble_success_percentage > 60, <<"skilled", "dribbler">>)
            \o part(row.pass_completion_percentage > 85, <<"accurate", "passer">>)
            \o part(row.shots_on_target_percentage > 50, <<"clinical", "finisher">>)
            \o part(row.progressive_passes > 50, <<"progressive", "passer">>)
            \o part(row.progressive_carries > 30, <<"ball", "carrier">>)
            \o (IF row.age < 23 THEN <<"young", "talent">>
                ELSE IF row.age > 30 THEN <<"experienced", "player">>
                ELSE <<>>)
    IN  IF description_parts # <<>> THEN description_parts
                                   ELSE <<"versatile", "player">>

\* Player.get_statistics_vector, each component in units of 1/VecScale
get_statistics_vector(row) ==
    LET per90(stat, full) ==
            IF row.minutes_per_90 > 0
            THEN Min((VecScale * stat) \div (full * row.minutes_per_90), VecScale)
            ELSE 0
        percent(p) == IF p > 0 THEN (VecScale * p) \div 100 ELSE 0
    IN  << IF goals_per_90(row) > 0
           THEN Min((VecScale * goals_per_90(row)) \div 100, VecScale) ELSE 0,
           IF assists_per_90(row) > 0
           THEN Min((VecScale * assists_per_90(row)) \div 50, VecScale) ELSE 0,
           percent(row.shots_on_target_percentage),
           percent(row.pass_completion_percentage),
           percent(row.dribble_success_percentage),
           per90(row.tackles, 5),
           per90(row.interceptions, 3),
           per90(row.progressive_passes, 10),
           per90(row.progressive_carries, 5),
           Min((VecScale * row.age) \div 40, VecScale) >>

\* ------------------------------------------------- VectorSearchService
RECURSIVE Dot(_, _, _)
\* np.dot over the first n components
Dot(v1, v2, n) == IF n = 0 THEN 0 ELSE v1[n] * v2[n] + Dot(v1, v2, n - 1)

RECURSIVE LongDivision(_, _, _)
\* the quotient n/d to `digits` decimal places, rounded down, with remainder
LongDivision(n, d, digits) ==
    IF digits = 0
    THEN [q |-> n \div d, r |-> n % d]
    ELSE LET p == LongDivision(n, d, digits - 1)
         IN  [q |-> 10 * p.q + (10 * p.r) \div d, r |-> (10 * p.r) % d]

RECURSIVE IsqrtBetween(_, _, _)
\* the largest c in lo..hi with c * c <= n, by bisection
IsqrtBetween(n, lo, hi) ==
    IF lo = hi THEN lo
    ELSE LET mid == (lo + hi + 1) \div 2
         IN  IF mid * mid <= n THEN IsqrtBetween(n, mid, hi)
                               ELSE IsqrtBetween(n, lo, mid - 1)

\* the integer square root of a number up to ScoreScale^2
Isqrt(n) == IsqrtBetween(n, 0, ScoreScale)

\* ------------------------------------------------------- float64 arithmetic
\* numpy computes norms, their product and the quotient in IEEE 754 double
\* precision: 53 significant bits, each operation rounded to nearest, ties
\* to even.  Numbers beyond 32 bits are sequences of digits base Word,
\* lowest digit first, without leading zero digits.
WordBits == 13

Word == 8192

MantissaBits == 53

\* bits computed beyond the mantissa before rounding
GuardBits == 3

RECURSIVE BigOf(_)
\* the digits of a natural number
BigOf(n) == IF n = 0 THEN <<>> ELSE <<n % Word>> \o BigOf(n \div Word)

RECURSIVE BigToInt(_)
\* the natural number of a short digit sequence
BigToInt(x) == IF x = <<>> THEN 0 ELSE x[1] + Word * BigToInt(Tail(x))

RECURSIVE Trim(_)
Trim(x) == IF x # <<>> /\ x[Len(x)] = 0 THEN Trim(SubSeq(x, 1, Len(x) - 1)) ELSE x

RECURSIVE AddFrom(_, _, _, _)
AddFrom(x, y, i, carry) ==
    IF i > Len(x) /\ i > Len(y)
    THEN IF carry = 0 THEN <<>> ELSE <<carry>>
    ELSE LET t == (IF i <= Len(x) THEN x[i] ELSE 0)
                  + (IF i <= Len(y) THEN y[i] ELSE 0) + carry
         IN  <<t % Word>> \o AddFrom(x, y, i + 1, t \div Word)

BigAdd(x, y) == AddFrom(x, y, 1, 0)

RECURSIVE SmallMulFrom(_, _, _, _)
SmallMulFrom(x, k, i, carry) ==
    IF i > Len(x)
    THEN IF carry = 0 THEN <<>> ELSE <<carry>>
    ELSE LET t == x[i] * k + carry
         IN  <<t % Word>> \o SmallMulFrom(x, k, i + 1, t \div Word)

RECURSIVE MulFrom(_, _, _)
MulFrom(x, y, i) ==
    IF i > Len(y)
    THEN <<>>
    ELSE BigAdd(SmallMulFrom(x, y[i], 1, 0), <<0>> \o MulFrom(x, y, i + 1))

BigMul(x, y) == Trim(MulFrom(x, y, 1))

RECURSIVE LessFrom(_, _, _)
LessFrom(x, y, i) ==
    IF i = 0 THEN FALSE
    ELSE IF x[i] # y[i] THEN x[i] < y[i]
    ELSE LessFrom(x, y, i - 1)

BigLess(x, y) == IF Len(x) # Len(y) THEN Len(x) < Len(y) ELSE LessFrom(x, y, Len(x))

\* 2^k
Pow2(k) ==
    [i \in 1..(k \div WordBits + 1) |->
        IF i = k \div WordBits + 1 THEN 2 ^ (k % WordBits) ELSE 0]

RECURSIVE SmallBitLen(_)
SmallBitLen(n) == IF n = 0 THEN 0 ELSE 1 + SmallBitLen(n \div 2)

\* the number of bits of x
BitLen(x) == IF x = <<>> THEN 0 ELSE WordBits * (Len(x) - 1) + SmallBitLen(x[Len(x)])

\* x \div 2^k
ShiftRight(x, k) ==
    LET drop == k \div WordBits
        low == 2 ^ (k % WordBits)
        high == Word \div low
    IN  Trim([i \in 1..Max(Len(x) - drop, 0) |->
                 x[i + drop] \div low
                 + (IF i + drop < Len(x) THEN (x[i + drop + 1] % low) * high ELSE 0)])

RECURSIVE DivBits(_, _, _, _, _)
\* the largest q0 + c * 2^last with c < 2^(bit - last + 1) and q * y <= x
DivBits(x, y, q0, bit, last) ==
    IF bit < last THEN q0
    ELSE LET t == BigAdd(q0, Pow2(bit))
         IN  IF BigLess(x, BigMul(t, y)) THEN DivBits(x, y, q0, bit - 1, last)
                                         ELSE DivBits(x, y, t, bit - 1, last)

RECURSIVE DivFrom(_, _, _, _)
\* the quotient bits from `bit` down, one digit at a time
DivFrom(x, y, q0, bit) ==
    IF bit < 0 THEN q0
    ELSE LET q == DivBits(x, y, q0, bit, Max(bit - WordBits + 1, 0))
         IN  IF q = q0 THEN DivFrom(x, y, q0, bit - WordBits)
                       ELSE DivFrom(x, y, q, bit - WordBits)

\* x \div y for y > 0
BigDiv(x, y) == DivFrom(x, y, <<>>, Max(BitLen(x) - BitLen(y), 0))

RECURSIVE SqrtBits(_, _, _, _)
SqrtBits(x, r0, bit, last) ==
    IF bit < last THEN r0
    ELSE LET t == BigAdd(r0, Pow2(bit))
         IN  IF BigLess(x, BigMul(t, t)) THEN SqrtBits(x, r0, bit - 1, last)
                                         ELSE SqrtBits(x, t, bit - 1, last)

RECURSIVE SqrtFrom(_, _, _)
\* the root bits from `bit` down, one digit at a time
SqrtFrom(x, r0, bit) ==
    IF bit < 0 THEN r0
    ELSE LET r == SqrtBits(x, r0, bit, Max(bit - WordBits + 1, 0))
         IN  IF r = r0 THEN SqrtFrom(x, r0, bit - WordBits)
                       ELSE SqrtFrom(x, r, bit - WordBits)

\* the integer square root of x
BigSqrt(x) == SqrtFrom(x, <<>>, BitLen(x) \div 2)

\* a positive double: m * 2^e with 2^52 <= m < 2^53
Float64(m, e) == [m |-> m, e |-> e]

\* the double nearest to a number x * 2^e <= v < (x + 1) * 2^e, where x has
\* more than MantissaBits + 1 bits and v > x * 2^e iff inexact
RoundToNearestEven(x, e, inexact) ==
    LET shift == BitLen(x) - MantissaBits
        m == ShiftRight(x, shift)
        twice == BigAdd(x, x)
        middle == BigMul(BigAdd(BigAdd(m, m), <<1>>), Pow2(shift))
        up == \/ BigLess(middle, twice)
              \/ middle = twice /\ (inexact \/ m[1] % 2 = 1)
        rounded == IF up THEN BigAdd(m, <<1>>) ELSE m
    IN  IF rounded = Pow2(MantissaBits)
        THEN Float64(Pow2(MantissaBits - 1), e + shift + 1)
        ELSE Float64(rounded, e + shift)

\* np.sqrt of a small positive integer
sqrt64(n) ==
    LET scaled == BigMul(BigOf(n), Pow2(2 * (MantissaBits + GuardBits)))
        root == BigSqrt(scaled)
    IN  RoundToNearestEven(root, - (MantissaBits + GuardBits),
                           BigMul(root, root) # scaled)

\* the product of two doubles
mul64(f, g) == RoundToNearestEven(BigMul(f.m, g.m), f.e + g.e, FALSE)

\* a small positive integer divided by a double
div64(n, g) ==
    LET scaled == BigMul(BigOf(n), Pow2(2 * MantissaBits + GuardBits))
        quotient == BigDiv(scaled, g.m)
    IN  RoundToNearestEven(quotient, - (2 * MantissaBits + GuardBits) - g.e,
                           BigMul(quotient, g.m) # scaled)

\* the double f in units of 1/ScoreScale, rounded down (f.e < 0)
Thousandths(f) ==
    IF f.m = <<>> THEN 0
    ELSE BigToInt(ShiftRight(BigMul(BigOf(ScoreScale), f.m), - f.e))

\* a vector whose components are all 0.0 or 1.0: its dot products are
\* integers, which double precision holds exactly
Saturated(vector) == \A i \in DOMAIN vector : vector[i] \in {0, VecScale}

\* norm1 * norm2 in double precision; an empty mantissa stands for 0.0
Norms64(norm1, norm2) ==
    IF norm1.m = <<>> THEN norm1
    ELSE IF norm2.m = <<>> THEN norm2
    ELSE mul64(norm1, norm2)

\* dot_product / norms in double precision, 0.0 when a norm is 0.0
Quotient64(dot_product, norms) ==
    IF norms.m = <<>> THEN norms
    ELSE IF dot_product = 0 THEN Float64(<<>>, 0)
    ELSE div64(dot_product, norms)

\* dot_product / (norm1 * norm2) in double precision for a dot product and
\* squared norms that are whole numbers
cosine64(dot_product, norm1_sq, norm2_sq) ==
    Quotient64(dot_product, Norms64(sqrt64(norm1_sq), sqrt64(norm2_sq)))

\* whether a double is greater than 1.0
AboveOne(f) == f.m # <<>> /\ f.e < 0 /\ BigLess(Pow2(- f.e), f.m)

\* _cosine_similarity, in units of 1/ScoreScale rounded down.  Over saturated
\* vectors the result is the double the code computes; otherwise it is the
\* real quotient dot / (norm1 * norm2) = sqrt(dot^2 / (norm1^2 * norm2^2))
_cosine_similarity(vector1, vector2) ==
    LET n == Len(vector1)
        dot_product == Dot(vector1, vector2, n)
        norm1_sq == Dot(vector1, vector1, n)
        norm2_sq == Dot(vector2, vector2, n)
        unit == VecScale * VecScale
    IN  IF (\A i \in 1..n : vector1[i] = 0) \/ (\A i \in 1..n : vector2[i] = 0)
        THEN 0
        ELSE IF ~ (Saturated(vector1) /\ Saturated(vector2))
        THEN IF norm1_sq = 0 \/ norm2_sq = 0
             THEN 0
             ELSE Isqrt(LongDivision(dot_product * dot_product,
                                     norm1_sq * norm2_sq, 6).q)
        ELSE Thousandths(cosine64(dot_product \div unit, norm1_sq \div unit,
                                  norm2_sq \div unit))

\* whether the score _cosine_similarity returns is above 1.0: over
\* saturated vectors the double the code computes, otherwise the real
\* quotient, which the Cauchy-Schwarz inequality bounds by 1
cosine_above_one(vector1, vector2) ==
    LET n == Len(vector1)
        unit == VecScale * VecScale
    IN  /\ Saturated(vector1) /\ Saturated(vector2)
        /\ \E i \in 1..n : vector1[i] # 0
        /\ \E i \in 1..n : vector2[i] # 0
        /\ AboveOne(cosine64(Dot(vector1, vector2, n) \div unit,
                             Dot(vector1, vector1, n) \div unit,
                             Dot(vector2, vector2, n) \div unit))

\* str.lower of one character of the modelled alphabet
LowerChar(c) == IF c = "A" THEN "a" ELSE IF c = "B" THEN "b" ELSE c

\* text.lower() of a text given as its sequence of characters
Lower(text) == [i \in DOMAIN text |-> LowerChar(text[i])]

RECURSIVE SplitFrom(_, _, _)
\* the words of text from position i on, `word` being the run of
\* characters read since the last whitespace
SplitFrom(text, i, word) ==
    IF i > Len(text)
    THEN IF word = <<>> THEN <<>> ELSE <<word>>
    ELSE IF text[i] = " "
    THEN (IF word = <<>> THEN <<>> ELSE <<word>>) \o SplitFrom(text, i + 1, <<>>)
    ELSE SplitFrom(text, i + 1, Append(word, text[i]))

\* text.split(): the maximal runs of characters that are not whitespace
Split(text) == SplitFrom(text, 1, <<>>)

\* a word-overlap score over the first description's words only
_text_similarity_containment(text1, text2) ==
    LET words1 == {text1[i] : i \in DOMAIN text1}
        words2 == {text2[i] : i \in DOMAIN text2}
    IN  IF words1 = {} \/ words2 = {}
        THEN 0
        ELSE (ScoreScale * Cardinality(words1 \cap words2)) \div Cardinality(words1)

\* _text_similarity over two descriptions given as word sequences, the
\* result of text.lower().split() (the phrases of generate_style_description
\* are lower case and joined by blanks): |A & B| / |A | B| in units of
\* 1/ScoreScale
_text_similarity(text1, text2) ==
    LET words1 == {text1[i] : i \in DOMAIN text1}
        words2 == {text2[i] : i \in DOMAIN text2}
    IN  IF words1 = {} \/ words2 = {}
        THEN 0
        ELSE (ScoreScale * Cardinality(words1 \cap words2))
                 \div Cardinality(words1 \cup words2)

\* a slice that keeps the whole list
SliceWhole(s, limit) == s

\* some_list[:limit] of a Python list: a negative limit drops from the end
Slice(s, limit) ==
    LET n == IF limit >= 0 THEN Min(limit, Len(s)) ELSE Max(Len(s) + limit, 0)
    IN  SubSeq(s, 1, n)

\* similarities.sort(key=lambda x: x[1], reverse=True): the sort is stable,
\* entries of equal score keep the order they were appended in
SortDescending(s) ==
    LET before(i, j) ==
            \/ s[i].similarity_score > s[j].similarity_score
            \/ s[i].similarity_score = s[j].similarity_score /\ i < j
        rank(i) == 1 + Cardinality({j \in DOMAIN s : before(j, i)})
    IN  [k \in DOMAIN s |-> s[CHOOSE i \in DOMAIN s : rank(i) = k]]

\* the orders in which a queryset without order_by is iterated:
\* Meta.ordering = ['-goals', '-assists', 'name'], no order among the rest
DefaultOrders(rows) ==
    LET before(a, b) ==
            \/ a.goals > b.goals
            \/ a.goals = b.goals /\ a.assists > b.assists
            \/ a.goals = b.goals /\ a.assists = b.assists /\ a.name < b.name
    IN  RankOrders(rows, [r \in rows |-> Cardinality({o \in rows : before(o, r)})])

\* Player.objects.filter(position=.., competition=..).exclude(id=player.id)
similar_players_statistical(player) ==
    {r \in Rows : /\ r.position = player.position
                  /\ r.competition = player.competition
                  /\ r.id # player.id}

\* the NLP candidates without the exclude: the target is its own candidate
similar_players_nlp_with_target(player) ==
    {r \in Rows : r.position = player.position}

\* Player.objects.filter(position=player.position).exclude(id=player.id)
similar_players_nlp(player) ==
    {r \in Rows : r.position = player.position /\ r.id # player.id}

\* Player.objects.filter(position=.., age__range=[age - 3, age + 3],
\*                       competition=..).exclude(id=player.id)
similar_players_fallback(player) ==
    {r \in Rows : /\ r.position = player.position
                  /\ r.age >= player.age - 3 /\ r.age <= player.age + 3
                  /\ r.competition = player.competition
                  /\ r.id # player.id}

\* a fallback search that drops the records whose fixed score is below the
\* threshold
_fallback_similarity_search_thresholded(player, limit, faults) ==
    IF "fallback" \in faults \/ limit < 0 \/ FallbackScore < similarity_threshold
    THEN {<<>>}
    ELSE {[i \in 1..Min(limit, Len(s)) |->
              [s[i] EXCEPT !.similarity_score = FallbackScore]] :
             s \in order_by_goals_assists(similar_players_fallback(player))}

\* _fallback_similarity_search: every list the call can return.  A failing
\* query and a negative slice bound of the queryset both raise inside the
\* try block and are answered with [].
_fallback_similarity_search(player, limit, faults) ==
    IF "fallback" \in faults \/ limit < 0
    THEN {<<>>}
    ELSE {[i \in 1..Min(limit, Len(s)) |->
              [s[i] EXCEPT !.similarity_score = FallbackScore]] :
             s \in order_by_goals_assists(similar_players_fallback(player))}

\* a statistical search that ranks by the score without attaching it
_find_statistical_similarities_unscored(player, limit, faults) ==
    IF "statistical" \in faults
    THEN _fallback_similarity_search(player, limit, faults)
    ELSE LET player_vector == get_statistics_vector(player)
             scored(other_player) ==
                 [other_player EXCEPT !.similarity_score =
                     _cosine_similarity(player_vector,
                                        get_statistics_vector(other_player))]
             passes(other_player) ==
                 other_player.similarity_score >= similarity_threshold
             similarities(s) ==
                 SelectSeq([i \in DOMAIN s |-> scored(s[i])], passes)
             stored(s) == [i \in DOMAIN s |-> players[s[i].id]]
         IN  {stored(Slice(SortDescending(similarities(s)), limit)) :
                 s \in DefaultOrders(similar_players_statistical(player))}

\* a statistical search that also falls back when nothing passes the threshold
_find_statistical_similarities_or_fallback(player, limit, faults) ==
    LET player_vector == get_statistics_vector(player)
        scored(other_player) ==
            [other_player EXCEPT !.similarity_score =
                _cosine_similarity(player_vector, get_statistics_vector(other_player))]
        passes(other_player) == other_player.similarity_score >= similarity_threshold
        similarities(s) == SelectSeq([i \in DOMAIN s |-> scored(s[i])], passes)
        found == {Slice(SortDescending(similarities(s)), limit) :
                     s \in DefaultOrders(similar_players_statistical(player))}
    IN  IF "statistical" \in faults \/ found = {<<>>}
        THEN _fallback_similarity_search(player, limit, faults)
        ELSE found

\* _find_statistical_similarities: every list the call can return
_find_statistical_similarities(player, limit, faults) ==
    IF "statistical" \in faults
    THEN _fallback_similarity_search(player, limit, faults)
    ELSE LET player_vector == get_statistics_vector(player)
             scored(other_player) ==
                 [other_player EXCEPT !.similarity_score =
                     _cosine_similarity(player_vector,
                                        get_statistics_vector(other_player))]
             passes(other_player) ==
                 other_player.similarity_score >= similarity_threshold
             similarities(s) ==
                 SelectSeq([i \in DOMAIN s |-> scored(s[i])], passes)
         IN  {Slice(SortDescending(similarities(s)), limit) :
                 s \in DefaultOrders(similar_players_statistical(player))}

\* an NLP search that trusts the stored style_description where one is stored
_find_nlp_similarities_cached(player, limit, faults) ==
    IF "nlp" \in faults
    THEN _fallback_similarity_search(player, limit, faults)
    ELSE LET description(row) ==
                 IF row.style_description # <<>> THEN row.style_description
                 ELSE generate_style_description(row)
             scored(other_player) ==
                 [other_player EXCEPT !.similarity_score =
                     _text_similarity(description(player), description(other_player))]
             passes(other_player) ==
                 other_player.similarity_score >= similarity_threshold
             similarities(s) ==
                 SelectSeq([i \in DOMAIN s |-> scored(s[i])], passes)
         IN  {Slice(SortDescending(similarities(s)), limit) :
                 s \in DefaultOrders(similar_players_nlp(player))}

\* _find_nlp_similarities: every list the call can return
_find_nlp_similarities(player, limit, faults) ==
    IF "nlp" \in faults
    THEN _fallback_similarity_search(player, limit, faults)
    ELSE LET target_description == generate_style_description(player)
             scored(other_player) ==
                 [other_player EXCEPT !.similarity_score =
                     _text_similarity(target_description,
                                      generate_style_description(other_player))]
             passes(other_player) ==
                 other_player.similarity_score >= similarity_threshold
             similarities(s) ==
                 SelectSeq([i \in DOMAIN s |-> scored(s[i])], passes)
         IN  {Slice(SortDescending(similarities(s)), limit) :
                 s \in DefaultOrders(similar_players_nlp(player))}

\* a fusion that keeps only the candidates both strategies returned
hybrid_scores_common(statistical_similar, nlp_similar) ==
    LET ids(s) == {s[i].id : i \in DOMAIN s}
        score(s, id) == s[CHOOSE i \in DOMAIN s : s[i].id = id].similarity_score
        common(p) == p.id \in ids(nlp_similar)
        all_similar == SelectSeq(statistical_similar, common)
    IN  [k \in DOMAIN all_similar |->
            [all_similar[k] EXCEPT !.similarity_score =
                (6 * score(statistical_similar, all_similar[k].id)
                 + 4 * score(nlp_similar, all_similar[k].id)) \div 10]]

\* the fusion of _find_hybrid_similarities: all_similar keeps insertion
\* order (statistical results, then the NLP results not yet present)
hybrid_scores(statistical_similar, nlp_similar) ==
    LET ids(s) == {s[i].id : i \in DOMAIN s}
        score(s, id) ==
            IF id \in ids(s)
            THEN s[CHOOSE i \in DOMAIN s : s[i].id = id].similarity_score
            ELSE 0
        unseen(p) == p.id \notin ids(statistical_similar)
        all_similar == statistical_similar \o SelectSeq(nlp_similar, unseen)
    IN  [k \in DOMAIN all_similar |->
            [all_similar[k] EXCEPT !.similarity_score =
                (6 * score(statistical_similar, all_similar[k].id)
                 + 4 * score(nlp_similar, all_similar[k].id)) \div 10]]

\* a hybrid search that applies the threshold to the fused scores
_find_hybrid_similarities_thresholded(player, limit, faults) ==
    IF "hybrid" \in faults
    THEN _fallback_similarity_search(player, limit, faults)
    ELSE LET passes(p) == p.similarity_score >= similarity_threshold
         IN  {Slice(SortDescending(SelectSeq(hybrid_scores(statistical_similar,
                                                           nlp_similar), passes)),
                    limit) :
                 statistical_similar \in
                     _find_statistical_similarities(player, limit * 2, faults),
                 nlp_similar \in _find_nlp_similarities(player, limit * 2, faults)}

\* a hybrid search that answers with the fallback search when one of its
\* sub-strategies faults
_find_hybrid_similarities_unabsorbed(player, limit, faults) ==
    IF faults \cap {"hybrid", "statistical", "nlp"} # {}
    THEN _fallback_similarity_search(player, limit, faults)
    ELSE {Slice(SortDescending(hybrid_scores(statistical_similar, nlp_similar)), limit) :
             statistical_similar \in _find_statistical_similarities(player, limit * 2, faults),
             nlp_similar \in _find_nlp_similarities(player, limit * 2, faults)}

\* _find_hybrid_similarities: every list the call can return
_find_hybrid_similarities(player, limit, faults) ==
    IF "hybrid" \in faults
    THEN _fallback_similarity_search(player, limit, faults)
    ELSE {Slice(SortDescending(hybrid_scores(statistical_similar, nlp_similar)), limit) :
             statistical_similar \in _find_statistical_similarities(player, limit * 2, faults),
             nlp_similar \in _find_nlp_similarities(player, limit * 2, faults)}

\* a dispatch that answers an unknown method with the fallback search
find_similar_players_lenient(player, limit, method, faults) ==
    IF method = "statistical"
    THEN {[status |-> "ok", rows |-> l] :
             l \in _find_statistical_similarities(player, limit, faults)}
    ELSE IF method = "nlp"
    THEN {[status |-> "ok", rows |-> l] :
             l \in _find_nlp_similarities(player, limit, faults)}
    ELSE IF method = "hybrid"
    THEN {[status |-> "ok", rows |-> l] :
             l \in _find_hybrid_similarities(player, limit, faults)}
    ELSE {[status |-> "ok", rows |-> l] :
             l \in _fallback_similarity_search(player, limit, faults)}

\* find_similar_players: every outcome of the call
find_similar_players(player, limit, method, faults) ==
    IF method = "statistical"
    THEN {[status |-> "ok", rows |-> l] :
             l \in _find_statistical_similarities(player, limit, faults)}
    ELSE IF method = "nlp"
    THEN {[status |-> "ok", rows |-> l] :
             l \in _find_nlp_similarities(player, limit, faults)}
    ELSE IF method = "hybrid"
    THEN {[status |-> "ok", rows |-> l] :
             l \in _find_hybrid_similarities(player, limit, faults)}
    ELSE {[status |-> "ValueError", rows |-> <<>>]}

\* ------------------------------------------------------------ PlayerViewSet
\* the limits above which the leaderboard and the similar endpoint cut
LeaderboardMaxLimit == 100

SimilarMaxLimit == 20

\* what a request is answered with: the HTTP status, the records of the
\* body, the key the body names and the keys it lists
Response(status, rows, key, keys) ==
    [status |-> status, rows |-> rows, key |-> key, keys |-> keys]

\* PlayerViewSet.get_queryset: the two optional filters, then the custom
\* sort when sort_by names a registered key and the default order otherwise
get_queryset(sort_by, sort_order, top_performers, regular_players) ==
    LET all == Rows
        top == IF top_performers
               THEN {r \in all : r.goals >= 5 \/ r.assists >= 5 \/ r.goals_assists >= 8}
               ELSE all
        queryset == IF regular_players
                    THEN {r \in top : r.matches_played >= 5 /\ r.minutes >= 450}
                    ELSE top
    IN  IF sort_by # None /\ sort_by # "" /\ is_valid_sort_option(sort_by)
        THEN apply_sorting(queryset, sort_by, sort_order = "desc")
        ELSE {Sorted(s, <<>>, <<"order_by">>) : s \in order_by_goals_assists(queryset)}

\* the list endpoint: the queryset of get_queryset as the body, an
\* exception of the sort as a server error
list(sort_by, sort_order, top_performers, regular_players) ==
    {IF out.status = "ok" THEN Response("200", out.rows, None, {})
                          ELSE Response("500", <<>>, None, {}) :
        out \in get_queryset(sort_by, sort_order, top_performers, regular_players)}

\* PlayerViewSet.leaderboard: the request carries stat and limit only.  A
\* negative bound of the queryset slice raises, as does the sort on an
\* unknown column; neither is caught.
leaderboard(stat, limit) ==
    LET capped == Min(limit, LeaderboardMaxLimit)
        unsorted == UNION {{out.rows[i] : i \in DOMAIN out.rows} :
                             out \in get_queryset(None, "desc", FALSE, FALSE)}
        queryset == {r \in unsorted : r.matches_played >= 3}
    IN  IF ~ is_valid_sort_option(stat)
        THEN {Response("400", <<>>, None, DOMAIN get_sort_options(None))}
        ELSE {IF out.status = "ok" /\ capped >= 0
              THEN Response("200", SubSeq(out.rows, 1, Min(capped, Len(out.rows))),
                            stat, {})
              ELSE Response("500", <<>>, None, {}) :
                 out \in apply_sorting(queryset, stat, TRUE)}

\* PlayerViewSet.similar: get_object answers an unknown pk with 404
similar(pk, limit, method, faults) ==
    IF pk \notin DOMAIN players
    THEN {Response("404", <<>>, None, {})}
    ELSE LET player == players[pk]
             capped == Min(limit, SimilarMaxLimit)
             valid_methods == {"statistical", "nlp", "hybrid"}
         IN  IF method \notin valid_methods
             THEN {Response("400", <<>>, None, valid_methods)}
             ELSE {IF out.status = "ok" THEN Response("200", out.rows, method, {})
                                        ELSE Response("500", <<>>, None, {}) :
                      out \in find_similar_players(player, capped, method, faults)}

\* ------------------------------------------------------- modelled inputs
\* rows of the sorting stores: a zero denominator, a tie on goals, two rows
\* whose minutes per game differ only behind the decimal point, NULLs
SortProfiles ==
    {[DefaultPlayer EXCEPT !.goals = 2, !.assists = 1, !.goals_assists = 3],
     [DefaultPlayer EXCEPT !.goals = 2, !.goals_assists = 2, !.minutes_per_90 = 4,
                           !.minutes = 315, !.matches_played = 4],
     [DefaultPlayer EXCEPT !.goals = 3, !.assists = 1, !.goals_assists = 4,
                           !.minutes_per_90 = 3, !.minutes = 235,
                           !.matches_played = 3, !.save_percentage = 70],
     [DefaultPlayer EXCEPT !.assists = 2, !.goals_assists = 2, !.minutes_per_90 = 2,
                           !.minutes = 160, !.matches_played = 2,
                           !.save_percentage = 60]}

\* the stores of NumPlayers rows over the given profiles, ids 1..NumPlayers
Stores(profiles) ==
    {[i \in 1..NumPlayers |-> [p[i] EXCEPT !.id = i]] :
        p \in [1..NumPlayers -> profiles]}

\* the store the registry operations run against: NumPlayers rows, the
\* first with zero denominators, the first two tied on goals
SampleProfile(i) ==
    CASE i % 3 = 1 -> [DefaultPlayer EXCEPT !.goals = 2, !.assists = 1, !.goals_assists = 3]
      [] i % 3 = 2 -> [DefaultPlayer EXCEPT !.goals = 2, !.goals_assists = 2,
                           !.minutes_per_90 = 4, !.minutes = 315, !.matches_played = 4]
      [] OTHER     -> [DefaultPlayer EXCEPT !.goals = 3, !.assists = 1, !.goals_assists = 4,
                           !.minutes_per_90 = 3, !.minutes = 235,
                           !.matches_played = 3, !.save_percentage = 70]

SampleStore == [i \in 1..NumPlayers |-> [SampleProfile(i) EXCEPT !.id = i]]

\* sort keys the callers pass: built-in stored and derived keys, a key that
\* is registered only dynamically, a key that is never registered
SortKeys ==
    {"goals", "save_percentage", "goals_per_90", "assists_per_90",
     "goal_contribution_per_90", "minutes_per_game", "custom", "bogus"}

AddKeys == {"custom", "goals_per_90"}

AddFields == {"assists", "minutes_per_game", "no_such_field"}

AddCategories == {"special", ""}

RemoveKeys == {"custom", "goals_per_90", "bogus"}

CategoryFilters == {None, "", "special", "attacking", "nowhere"}

\* rows of the similarity stores: a forward without playing time, a
\* productive forward, the first forward again in another league and again
\* outside the age range, a midfielder
SimProfiles ==
    {[DefaultPlayer EXCEPT !.age = 24],
     [DefaultPlayer EXCEPT !.name = 2, !.age = 26, !.goals = 12, !.assists = 6,
                           !.goals_assists = 18, !.matches_played = 10,
                           !.minutes = 900, !.minutes_per_90 = 10,
                           !.shots_on_target_percentage = 50,
                           !.dribble_success_percentage = 100],
     [DefaultPlayer EXCEPT !.age = 24, !.competition = "L2"],
     [DefaultPlayer EXCEPT !.age = 30],
     [DefaultPlayer EXCEPT !.position = "MF", !.age = 31, !.assists = 6,
                           !.goals_assists = 6, !.tackles = 25,
                           !.matches_played = 5, !.minutes = 450,
                           !.minutes_per_90 = 5]}

\* the profiles with three different descriptions and vectors: the plain
\* forward, the productive forward and the midfielder
CacheProfiles == {p \in SimProfiles : p.competition = "L1" /\ p.age # 30}

\* forwards of one league aged 40 whose statistics are zero or at the cap of
\* their vector component: 1, 2, 3 and 5 components at 1.0, the rest at 0.0
TwinProfiles ==
    LET veteran == [DefaultPlayer EXCEPT !.age = 40]
        scorer == [veteran EXCEPT !.goals = 10, !.goals_assists = 10,
                                  !.matches_played = 10, !.minutes = 900,
                                  !.minutes_per_90 = 10]
        provider == [scorer EXCEPT !.assists = 5, !.goals_assists = 15]
        accurate == [provider EXCEPT !.shots_on_target_percentage = 100,
                                     !.pass_completion_percentage = 100]
    IN  {veteran, scorer, provider, accurate}

\* the stores of two such rows, ids 1 and 2
TwinStores ==
    {<<[p EXCEPT !.id = 1], [q EXCEPT !.id = 2]>> : p, q \in TwinProfiles}

\* the default threshold and the highest a cosine can meet: 1.0
TwinThresholds == {DefaultThreshold, ScoreScale}

\* the statistical block runs or raises, and then the fallback runs or raises
StatisticalFaults == {{}, {"statistical"}, {"statistical", "fallback"}}

\* rows that pass the validators of the model: the twin profiles and two
\* forwards whose components lie strictly between 0.0 and 1.0
UnitProfiles ==
    LET young == [DefaultPlayer EXCEPT !.age = 20]
        regular == [young EXCEPT !.age = 24, !.goals = 3, !.assists = 1,
                                 !.goals_assists = 4, !.matches_played = 10,
                                 !.minutes = 900, !.minutes_per_90 = 10,
                                 !.tackles = 20,
                                 !.pass_completion_percentage = 80]
    IN  TwinProfiles \cup {young, regular}

\* the stores of two such rows, ids 1 and 2
UnitStores ==
    {<<[p EXCEPT !.id = 1], [q EXCEPT !.id = 2]>> : p, q \in UnitProfiles}

\* rows as the loader stores them, without validation: playing time
\* negative, absent or present, counts negative, zero or positive, a
\* percentage absent or present, the age absent (0.0) or present
VectorProfiles ==
    {[DefaultPlayer EXCEPT !.minutes_per_90 = m, !.goals = g, !.assists = g,
                           !.goals_assists = 2 * g, !.tackles = t,
                           !.interceptions = t, !.progressive_passes = t,
                           !.progressive_carries = t,
                           !.shots_on_target_percentage = p,
                           !.pass_completion_percentage = p,
                           !.dribble_success_percentage = p, !.age = a] :
        m \in {-1, 0, 2}, g \in {0, 3}, t \in {-5, 0, 10}, p \in {0, 50},
        a \in {0, 25}}

\* rows for the fallback query: forwards of one league aged 24, 27 and 28
\* (3 and 4 years from the first) that tie on goals or on goals and
\* assists, a forward of another league, a midfielder
FallbackProfiles ==
    {[DefaultPlayer EXCEPT !.age = 24, !.goals = 2, !.assists = 1, !.goals_assists = 3],
     [DefaultPlayer EXCEPT !.name = 2, !.age = 27, !.goals = 2, !.goals_assists = 2],
     [DefaultPlayer EXCEPT !.name = 3, !.age = 27, !.goals = 2, !.assists = 1,
                           !.goals_assists = 3],
     [DefaultPlayer EXCEPT !.name = 4, !.age = 28, !.goals = 5, !.goals_assists = 5],
     [DefaultPlayer EXCEPT !.name = 5, !.age = 24, !.goals = 9, !.goals_assists = 9,
                           !.competition = "L2"],
     [DefaultPlayer EXCEPT !.name = 6, !.age = 25, !.goals = 7, !.goals_assists = 7,
                           !.position = "MF"]}

\* the characters of the texts: two letters in lower case, one of them and
\* another in upper case, the blank
Alphabet == {"a", "b", "A", "B", " "}

\* the texts of up to MaxTextLen characters
Texts == UNION {[1..n -> Alphabet] : n \in 0..MaxTextLen}

\* rows for the style description: every position tag, two tags, a
\* position without a known tag; young, mid-career and experienced; with and
\* without a goal, tackle and pass qualifier
StyleProfiles ==
    {[DefaultPlayer EXCEPT !.position = pos, !.age = a, !.goals = g,
                           !.goals_assists = g, !.tackles = t,
                           !.pass_completion_percentage = p] :
        pos \in {"FW", "MF", "DF", "GK", "FW,MF", "AM"}, a \in {20, 25, 35},
        g \in {0, 12}, t \in {0, 35}, p \in {0, 90}}

\* the keys read and written concurrently: one registered only
\* dynamically, one built in
RaceKeys == {"custom", "goals_per_90"}

\* the fields a concurrent registration maps a key to: a stored column, a
\* derived metric
RaceFields == {"assists", "minutes_per_game"}

\* the thresholds VECTOR_SEARCH_CONFIG sets: the default and a lower one
Thresholds == {DefaultThreshold, 300}

\* the limit argument: negative, zero, below and at the number of candidates
Limits == {-1, 0, 1, 2}

Methods == {"statistical", "nlp", "hybrid", "semantic"}

\* the try blocks in which a query or a computation can raise
FaultPoints == {"statistical", "nlp", "hybrid", "fallback"}

\* no fault, one faulting block, or one faulting block and a faulting fallback
FaultSets ==
    {{}} \cup {{f} : f \in FaultPoints} \cup {{f, "fallback"} : f \in FaultPoints}

\* sort_by of a list request: absent, empty, or one of the sort keys
SortByParams == {None, ""} \cup SortKeys

SortOrders == {"desc", "asc"}

\* limit of a request: negative, zero, below both cuts, between them, above
ViewLimits == {-1, 0, 2, SimilarMaxLimit + 1, LeaderboardMaxLimit + 1}

\* a store with more candidates than the similar endpoint may return: the
\* productive forward with a different name and number of goals in each row
ManyPlayers == SimilarMaxLimit + 3

ManyStore ==
    LET productive == CHOOSE p \in SimProfiles : p.goals > 0
    IN  [i \in 1..ManyPlayers |->
            [productive EXCEPT !.id = i, !.name = i, !.goals = productive.goals + i,
                               !.goals_assists = productive.goals_assists + i]]

\* the keys the callers name: the history follows these
TrackedKeys == SortKeys \cup AddKeys \cup RemoveKeys

\* ------------------------------------------------------------ the machine
NoCall ==
    [op |-> "none", key |-> None, reverse |-> FALSE, field |-> None, category |-> None,
     target |-> 0, limit |-> 0, method |-> None, faults |-> {},
     args |-> <<>>,
     pc |-> "done", seen |-> {}]

\* a call of the sort-option registry
SortCall(op, key, reverse, field, category) ==
    [op |-> op, key |-> key, reverse |-> reverse, field |-> field, category |-> category,
     target |-> 0, limit |-> 0, method |-> None, faults |-> {},
     args |-> <<>>,
     pc |-> "done", seen |-> {}]

\* a call of the similarity engine: the target's id, the limit, the method,
\* and the try blocks that raise during the call
SimCall(target, limit, method, faults) ==
    [op |-> "find_similar_players", key |-> None, reverse |-> FALSE, field |-> None,
     category |-> None, target |-> target, limit |-> limit, method |-> method,
     faults |-> faults, args |-> <<>>, pc |-> "done", seen |-> {}]

\* what a call hands back: an exception or "ok", and the returned rows (with
\* their annotations and the queryset operations applied), boolean, field
\* name or option table
Ret(status) ==
    [status |-> status, rows |-> <<>>, calc |-> <<>>, ops |-> <<>>,
     flag |-> FALSE, field |-> None, options |-> [k \in {} |-> Opt(None, None, None, None)],
     text |-> <<>>]

\* a call of a method of one Player row
RowCall(op, target) ==
    [op |-> op, key |-> None, reverse |-> FALSE, field |-> None, category |-> None,
     target |-> target, limit |-> 0, method |-> None, faults |-> {},
     args |-> <<>>,
     pc |-> "done", seen |-> {}]

\* a call of _text_similarity with its two texts
TextCall(text1, text2) ==
    [RowCall("_text_similarity", 0) EXCEPT !.args = <<text1, text2>>]

InitCommon ==
    /\ SORT_OPTIONS = InitialSortOptions
    /\ db_vendor \in DbVendors
    /\ similarity_threshold = DefaultThreshold
    /\ call = NoCall
    /\ result = Ret("ok")
    /\ last_write = [k \in TrackedKeys |->
                        IF k \in DOMAIN InitialSortOptions
                        THEN InitialSortOptions[k].field ELSE None]

Init ==
    /\ players = SampleStore
    /\ InitCommon

InitSort ==
    /\ players \in Stores(SortProfiles)
    /\ InitCommon

ApplySorting ==
    \E sort_key \in SortKeys, reverse \in BOOLEAN :
      \E out \in apply_sorting(Rows, sort_key, reverse) :
        /\ call' = SortCall("apply_sorting", sort_key, reverse, None, None)
        /\ result' = [Ret(out.status) EXCEPT !.rows = out.rows, !.calc = out.calc,
                                                !.ops = out.ops]
        /\ UNCHANGED <<players, SORT_OPTIONS, db_vendor, similarity_threshold, last_write>>

\* one ordering request against a freshly loaded registry
ApplySortingOnce ==
    /\ call.op = "none"
    /\ ApplySorting

AddSortOption ==
    \E key \in AddKeys, field \in AddFields, category \in AddCategories :
        /\ SORT_OPTIONS' = add_sort_option(key, "Custom", field, "Custom option", category)
        /\ call' = SortCall("add_sort_option", key, FALSE, field, category)
        /\ result' = Ret("ok")
        /\ last_write' = [last_write EXCEPT ![key] = field]
        /\ UNCHANGED <<players, db_vendor, similarity_threshold>>

RemoveSortOption ==
    \E key \in RemoveKeys :
        /\ SORT_OPTIONS' = remove_sort_option(key).registry
        /\ call' = SortCall("remove_sort_option", key, FALSE, None, None)
        /\ result' = [Ret("ok") EXCEPT !.flag = remove_sort_option(key).value]
        /\ last_write' = [last_write EXCEPT ![key] = None]
        /\ UNCHANGED <<players, db_vendor, similarity_threshold>>

GetSortOptions ==
    \E category \in CategoryFilters :
        /\ call' = SortCall("get_sort_options", None, FALSE, None, category)
        /\ result' = [Ret("ok") EXCEPT !.options = get_sort_options(category)]
        /\ UNCHANGED <<players, SORT_OPTIONS, db_vendor, similarity_threshold, last_write>>

IsValidSortOption ==
    \E sort_key \in SortKeys :
        /\ call' = SortCall("is_valid_sort_option", sort_key, FALSE, None, None)
        /\ result' = [Ret("ok") EXCEPT !.flag = is_valid_sort_option(sort_key)]
        /\ UNCHANGED <<players, SORT_OPTIONS, db_vendor, similarity_threshold, last_write>>

GetSortField ==
    \E sort_key \in SortKeys :
        /\ call' = SortCall("get_sort_field", sort_key, FALSE, None, None)
        /\ result' = [Ret(get_sort_field(sort_key).status)
                        EXCEPT !.field = get_sort_field(sort_key).value]
        /\ UNCHANGED <<players, SORT_OPTIONS, db_vendor, similarity_threshold, last_write>>

\* one similarity query against a store
FindSimilarPlayers ==
    /\ call.op = "none"
    /\ \E i \in DOMAIN players, limit \in Limits, method \in Methods, faults \in FaultSets :
        \E out \in find_similar_players(players[i], limit, method, faults) :
          /\ call' = SimCall(players[i].id, limit, method, faults)
          /\ result' = [Ret(out.status) EXCEPT !.rows = out.rows]
          /\ UNCHANGED <<players, SORT_OPTIONS, db_vendor, similarity_threshold,
                         last_write>>

\* one statistical similarity query against a store
FindStatisticalSimilarities ==
    /\ call.op = "none"
    /\ \E i \in DOMAIN players, limit \in Limits, faults \in StatisticalFaults :
        \E out \in find_similar_players(players[i], limit, "statistical", faults) :
          /\ call' = SimCall(players[i].id, limit, "statistical", faults)
          /\ result' = [Ret(out.status) EXCEPT !.rows = out.rows]
          /\ UNCHANGED <<players, SORT_OPTIONS, db_vendor, similarity_threshold,
                         last_write>>

Next ==
    \/ ApplySorting
    \/ AddSortOption
    \/ RemoveSortOption
    \/ GetSortOptions
    \/ IsValidSortOption
    \/ GetSortField

Spec == Init /\ [][Next]_vars

NextSort == ApplySortingOnce

SpecSort == InitSort /\ [][NextSort]_vars

\* similarity queries over every store of the similarity profiles
InitSim ==
    /\ players \in Stores(SimProfiles)
    /\ SORT_OPTIONS = InitialSortOptions
    /\ db_vendor = "sqlite"
    /\ similarity_threshold \in Thresholds
    /\ call = NoCall
    /\ result = Ret("ok")
    /\ last_write = [k \in TrackedKeys |->
                        IF k \in DOMAIN InitialSortOptions
                        THEN InitialSortOptions[k].field ELSE None]

NextSim == FindSimilarPlayers

SpecSim == InitSim /\ [][NextSim]_vars

\* generate_embeddings_for_all_players: the description and the vector of
\* every row are computed from its statistics and saved in the two fields
GenerateEmbeddings ==
    /\ players' = [i \in DOMAIN players |->
                     [players[i] EXCEPT
                         !.style_description = generate_style_description(players[i]),
                         !.style_embedding = get_statistics_vector(players[i])]]
    /\ UNCHANGED <<SORT_OPTIONS, db_vendor, similarity_threshold, call, result,
                   last_write>>

\* every row holds the description and the vector of its present statistics
EmbeddingsFresh ==
    \A i \in DOMAIN players :
        /\ players[i].style_description = generate_style_description(players[i])
        /\ players[i].style_embedding = get_statistics_vector(players[i])

\* load_players --clear with the file the store was loaded from: the rows
\* are deleted and created again from the file, which has no style columns
LoadPlayers ==
    /\ players' = [i \in DOMAIN players |->
                     [players[i] EXCEPT !.style_description = <<>>,
                                        !.style_embedding = <<>>]]
    /\ UNCHANGED <<SORT_OPTIONS, db_vendor, similarity_threshold, call, result,
                   last_write>>

\* a row whose style fields were generated (generate_embeddings --player-id)
\* while it held other statistics: the admin change form has no style
\* fields, so an edit of the statistics leaves them as they were.  At most
\* one row is stale at a time.
StaleEmbedding ==
    /\ EmbeddingsFresh
    /\ \E i \in DOMAIN players, p \in CacheProfiles :
          /\ generate_style_description(p) # generate_style_description(players[i])
          /\ players' = [players EXCEPT ![i] =
                            [@ EXCEPT !.style_description = generate_style_description(p),
                                      !.style_embedding = get_statistics_vector(p)]]
    /\ UNCHANGED <<SORT_OPTIONS, db_vendor, similarity_threshold, call, result,
                   last_write>>

\* the stores of the plain forward, the productive forward and the midfielder
InitCache ==
    /\ players \in Stores(CacheProfiles)
    /\ SORT_OPTIONS = InitialSortOptions
    /\ db_vendor = "sqlite"
    /\ similarity_threshold \in Thresholds
    /\ call = NoCall
    /\ result = Ret("ok")
    /\ last_write = [k \in TrackedKeys |->
                        IF k \in DOMAIN InitialSortOptions
                        THEN InitialSortOptions[k].field ELSE None]

NextCache ==
    \/ FindSimilarPlayers
    \/ GenerateEmbeddings
    \/ LoadPlayers
    \/ StaleEmbedding

\* similarity queries over stores whose style fields are empty, freshly
\* generated, or stale in one row; the fields change while the statistics
\* and a recorded query stay
SpecCache == InitCache /\ [][NextCache]_vars


\* a request of the enclosing layer
ViewCall(op, key, reverse, target, limit, method, faults) ==
    [op |-> op, key |-> key, reverse |-> reverse, field |-> None, category |-> None,
     target |-> target, limit |-> limit, method |-> method, faults |-> faults,
     args |-> <<>>,
     pc |-> "done", seen |-> {}]

\* the response as the result: the key the body names in field, the keys
\* it lists as the keys of options
Answer(response) ==
    [Ret(response.status) EXCEPT
        !.rows = response.rows,
        !.field = response.key,
        !.options = [k \in response.keys |-> Opt(None, None, None, None)]]

\* GET /api/players/
ListPlayers ==
    /\ call.op = "none"
    /\ \E sort_by \in SortByParams, sort_order \in SortOrders,
          top_performers \in BOOLEAN, regular_players \in BOOLEAN :
        \E response \in list(sort_by, sort_order, top_performers, regular_players) :
          /\ call' = ViewCall("list", sort_by, sort_order = "desc", 0, 0, None, {})
          /\ result' = Answer(response)
    /\ UNCHANGED <<players, SORT_OPTIONS, db_vendor, similarity_threshold, last_write>>

\* GET /api/players/leaderboard/
Leaderboard ==
    /\ call.op = "none"
    /\ \E stat \in SortKeys, limit \in ViewLimits :
        \E response \in leaderboard(stat, limit) :
          /\ call' = ViewCall("leaderboard", stat, TRUE, 0, limit, None, {})
          /\ result' = Answer(response)
    /\ UNCHANGED <<players, SORT_OPTIONS, db_vendor, similarity_threshold, last_write>>

\* GET /api/players/{pk}/similar/
Similar ==
    /\ call.op = "none"
    /\ \E pk \in 0..Len(players), limit \in ViewLimits, method \in Methods,
          faults \in FaultSets :
        \E response \in similar(pk, limit, method, faults) :
          /\ call' = ViewCall("similar", None, FALSE, pk, limit, method, faults)
          /\ result' = Answer(response)
    /\ UNCHANGED <<players, SORT_OPTIONS, db_vendor, similarity_threshold, last_write>>

NextViews ==
    \/ ListPlayers
    \/ Leaderboard
    \/ Similar

\* one request of the enclosing layer against the sample store
SpecViews == Init /\ [][NextViews]_vars

InitMany ==
    /\ players = ManyStore
    /\ SORT_OPTIONS = InitialSortOptions
    /\ db_vendor = "sqlite"
    /\ similarity_threshold \in Thresholds
    /\ call = NoCall
    /\ result = Ret("ok")
    /\ last_write = [k \in TrackedKeys |->
                        IF k \in DOMAIN InitialSortOptions
                        THEN InitialSortOptions[k].field ELSE None]

NextMany == Similar

\* one similar request against the store of many candidates
SpecMany == InitMany /\ [][NextMany]_vars

\* statistical queries over the stores of two saturated rows
InitTwin ==
    /\ players \in TwinStores
    /\ SORT_OPTIONS = InitialSortOptions
    /\ db_vendor = "sqlite"
    /\ similarity_threshold \in TwinThresholds
    /\ call = NoCall
    /\ result = Ret("ok")
    /\ last_write = [k \in TrackedKeys |->
                        IF k \in DOMAIN InitialSortOptions
                        THEN InitialSortOptions[k].field ELSE None]

NextTwin == FindStatisticalSimilarities

SpecTwin == InitTwin /\ [][NextTwin]_vars

\* _text_similarity of two texts
TextSimilarity ==
    /\ call.op = "none"
    /\ \E text1 \in Texts, text2 \in Texts :
          /\ call' = TextCall(text1, text2)
          /\ result' = [Ret("ok") EXCEPT
                           !.calc = <<_text_similarity(Split(Lower(text1)),
                                                       Split(Lower(text2)))>>]
          /\ UNCHANGED <<players, SORT_OPTIONS, db_vendor, similarity_threshold,
                         last_write>>

InitText ==
    /\ players = SampleStore
    /\ SORT_OPTIONS = InitialSortOptions
    /\ db_vendor = "sqlite"
    /\ similarity_threshold = DefaultThreshold
    /\ call = NoCall
    /\ result = Ret("ok")
    /\ last_write = [k \in TrackedKeys |->
                        IF k \in DOMAIN InitialSortOptions
                        THEN InitialSortOptions[k].field ELSE None]

NextText == TextSimilarity

SpecText == InitText /\ [][NextText]_vars

\* similarity queries over every store of the fallback profiles
InitFallback ==
    /\ players \in Stores(FallbackProfiles)
    /\ SORT_OPTIONS = InitialSortOptions
    /\ db_vendor = "sqlite"
    /\ similarity_threshold = DefaultThreshold
    /\ call = NoCall
    /\ result = Ret("ok")
    /\ last_write = [k \in TrackedKeys |->
                        IF k \in DOMAIN InitialSortOptions
                        THEN InitialSortOptions[k].field ELSE None]

NextFallback == FindSimilarPlayers

SpecFallback == InitFallback /\ [][NextFallback]_vars

\* Player.get_statistics_vector of a stored row
GetStatisticsVector ==
    /\ call.op = "none"
    /\ \E i \in DOMAIN players :
          /\ call' = RowCall("get_statistics_vector", players[i].id)
          /\ result' = [Ret("ok") EXCEPT !.calc = get_statistics_vector(players[i])]
          /\ UNCHANGED <<players, SORT_OPTIONS, db_vendor, similarity_threshold,
                         last_write>>

\* the methods of a row over the stores of one row
InitVector ==
    /\ players \in {<<[p EXCEPT !.id = 1]>> : p \in VectorProfiles}
    /\ SORT_OPTIONS = InitialSortOptions
    /\ db_vendor = "sqlite"
    /\ similarity_threshold = DefaultThreshold
    /\ call = NoCall
    /\ result = Ret("ok")
    /\ last_write = [k \in TrackedKeys |->
                        IF k \in DOMAIN InitialSortOptions
                        THEN InitialSortOptions[k].field ELSE None]

NextVector == GetStatisticsVector

SpecVector == InitVector /\ [][NextVector]_vars

\* VectorSearchService._cosine_similarity of the statistics vectors of two
\* stored rows: the score and whether it is above 1.0
CosineSimilarity ==
    /\ call.op = "none"
    /\ \E i \in DOMAIN players, j \in DOMAIN players :
          LET vector1 == get_statistics_vector(players[i])
              vector2 == get_statistics_vector(players[j])
          IN  /\ call' = [RowCall("_cosine_similarity", players[i].id)
                             EXCEPT !.args = <<vector1, vector2>>]
              /\ result' = [Ret("ok") EXCEPT
                               !.calc = <<_cosine_similarity(vector1, vector2),
                                          IF cosine_above_one(vector1, vector2)
                                          THEN 1 ELSE 0>>]
              /\ UNCHANGED <<players, SORT_OPTIONS, db_vendor,
                             similarity_threshold, last_write>>

\* the statistics vectors of valid rows and their cosines
InitUnit ==
    /\ players \in UnitStores
    /\ SORT_OPTIONS = InitialSortOptions
    /\ db_vendor = "sqlite"
    /\ similarity_threshold = DefaultThreshold
    /\ call = NoCall
    /\ result = Ret("ok")
    /\ last_write = [k \in TrackedKeys |->
                        IF k \in DOMAIN InitialSortOptions
                        THEN InitialSortOptions[k].field ELSE None]

NextUnit ==
    \/ GetStatisticsVector
    \/ CosineSimilarity

SpecUnit == InitUnit /\ [][NextUnit]_vars

\* Player.generate_style_description of a stored row
GenerateStyleDescription ==
    /\ call.op = "none"
    /\ \E i \in DOMAIN players :
          /\ call' = RowCall("generate_style_description", players[i].id)
          /\ result' = [Ret("ok") EXCEPT !.text = generate_style_description(players[i])]
          /\ UNCHANGED <<players, SORT_OPTIONS, db_vendor, similarity_threshold,
                         last_write>>

InitStyle ==
    /\ players \in {<<[p EXCEPT !.id = 1]>> : p \in StyleProfiles}
    /\ SORT_OPTIONS = InitialSortOptions
    /\ db_vendor = "sqlite"
    /\ similarity_threshold = DefaultThreshold
    /\ call = NoCall
    /\ result = Ret("ok")
    /\ last_write = [k \in TrackedKeys |->
                        IF k \in DOMAIN InitialSortOptions
                        THEN InitialSortOptions[k].field ELSE None]

NextStyle == GenerateStyleDescription

SpecStyle == InitStyle /\ [][NextStyle]_vars

\* ---- threads on the registry without a lock: a reading call advances one
\* statement at a time (call.pc), registrations and removals of other
\* threads run between its statements; each dictionary operation is atomic
Reading == call.op \in {"apply_sorting", "get_sort_field"} /\ call.pc # "done"

\* the fields the key of the reading call has been mapped to since it began
SeenNow(key) == IF key \in DOMAIN SORT_OPTIONS THEN {SORT_OPTIONS[key].field} ELSE {}

\* a thread enters apply_sorting(queryset, sort_key, reverse)
BeginApplySorting ==
    /\ call.op = "none"
    /\ \E sort_key \in RaceKeys, reverse \in BOOLEAN :
          call' = [SortCall("apply_sorting", sort_key, reverse, None, None)
                      EXCEPT !.pc = "apply_sorting_check", !.seen = SeenNow(sort_key)]
    /\ result' = Ret("running")
    /\ UNCHANGED <<players, SORT_OPTIONS, db_vendor, similarity_threshold, last_write>>

\* a thread enters get_sort_field(sort_key)
BeginGetSortField ==
    /\ call.op = "none"
    /\ \E sort_key \in RaceKeys :
          call' = [SortCall("get_sort_field", sort_key, FALSE, None, None)
                      EXCEPT !.pc = "get_sort_field_check", !.seen = SeenNow(sort_key)]
    /\ result' = Ret("running")
    /\ UNCHANGED <<players, SORT_OPTIONS, db_vendor, similarity_threshold, last_write>>

\* apply_sorting: if not cls.is_valid_sort_option(sort_key): raise ValueError
ApplySortingCheck ==
    /\ call.op = "apply_sorting" /\ call.pc = "apply_sorting_check"
    /\ IF is_valid_sort_option(call.key)
       THEN /\ call' = [call EXCEPT !.pc = "get_sort_field_check"]
            /\ UNCHANGED result
       ELSE /\ call' = [call EXCEPT !.pc = "done"]
            /\ result' = Ret("ValueError")
    /\ UNCHANGED <<players, SORT_OPTIONS, db_vendor, similarity_threshold, last_write>>

\* get_sort_field: if not cls.is_valid_sort_option(sort_key): raise ValueError
GetSortFieldCheck ==
    /\ Reading /\ call.pc = "get_sort_field_check"
    /\ IF is_valid_sort_option(call.key)
       THEN /\ call' = [call EXCEPT !.pc = "lookup"]
            /\ UNCHANGED result
       ELSE /\ call' = [call EXCEPT !.pc = "done"]
            /\ result' = Ret("ValueError")
    /\ UNCHANGED <<players, SORT_OPTIONS, db_vendor, similarity_threshold, last_write>>

\* get_sort_field: return cls.SORT_OPTIONS[sort_key]['field'], and in
\* apply_sorting the ordering by that field, which reads the registry no more
SortFieldLookup ==
    /\ Reading /\ call.pc = "lookup"
    /\ IF call.key \notin DOMAIN SORT_OPTIONS
       THEN /\ call' = [call EXCEPT !.pc = "done"]
            /\ result' = Ret("KeyError")
       ELSE LET field == SORT_OPTIONS[call.key].field
            IN  /\ call' = [call EXCEPT !.pc = "done", !.field = field]
                /\ IF call.op = "get_sort_field"
                   THEN result' = [Ret("ok") EXCEPT !.field = field]
                   ELSE \E out \in sort_by_field(Rows, field, call.reverse) :
                            result' = [Ret(out.status) EXCEPT
                                          !.rows = out.rows, !.calc = out.calc,
                                          !.ops = out.ops]
    /\ UNCHANGED <<players, SORT_OPTIONS, db_vendor, similarity_threshold, last_write>>

\* another thread runs add_sort_option
ConcurrentAddSortOption ==
    /\ Reading
    /\ \E key \in RaceKeys, field \in RaceFields :
          /\ SORT_OPTIONS' = add_sort_option(key, "Custom", field, "Custom option", "special")
          /\ last_write' = [last_write EXCEPT ![key] = field]
          /\ call' = [call EXCEPT !.seen = IF key = call.key THEN @ \cup {field} ELSE @]
    /\ UNCHANGED <<players, db_vendor, similarity_threshold, result>>

\* another thread runs remove_sort_option
ConcurrentRemoveSortOption ==
    /\ Reading
    /\ \E key \in RaceKeys :
          /\ SORT_OPTIONS' = remove_sort_option(key).registry
          /\ last_write' = [last_write EXCEPT ![key] = None]
    /\ UNCHANGED <<players, db_vendor, similarity_threshold, call, result>>

\* the registry a reading call starts on: as loaded, or with the
\* dynamically registered key present
InitRace ==
    /\ players = SampleStore
    /\ \E registry \in {InitialSortOptions,
                        InitialSortOptions @@
                            ("custom" :> Opt("Custom", "assists", "Custom option", "special"))} :
          /\ SORT_OPTIONS = registry
          /\ last_write = [k \in TrackedKeys |->
                              IF k \in DOMAIN registry THEN registry[k].field ELSE None]
    /\ db_vendor = "sqlite"
    /\ similarity_threshold = DefaultThreshold
    /\ call = NoCall
    /\ result = Ret("ok")

NextRace ==
    \/ BeginApplySorting
    \/ BeginGetSortField
    \/ ApplySortingCheck
    \/ GetSortFieldCheck
    \/ SortFieldLookup
    \/ ConcurrentAddSortOption
    \/ ConcurrentRemoveSortOption

SpecRace == InitRace /\ [][NextRace]_vars

\* ===================================================== properties: sorting
\* the call just made was apply_sorting and it returned rows
SortedCall == call.op = "apply_sorting" /\ result.status = "ok"

\* the sort value of a row: the stored attribute, or for a derived metric
\* numerator / denominator, 0 when the denominator is not positive
Numerator(row, field) ==
    CASE field = "goals_per_90" -> row.goals
      [] field = "assists_per_90" -> row.assists
      [] field = "goal_contribution_per_90" -> row.goals_assists
      [] field = "minutes_per_game" -> row.minutes

Denominator(row, field) ==
    IF field = "minutes_per_game" THEN row.matches_played ELSE row.minutes_per_90

Quotient(row, field) ==
    IF Denominator(row, field) <= 0 THEN Val(0, 1)
    ELSE Val(Numerator(row, field), Denominator(row, field))

FieldValue(row, field) ==
    IF field \in CalculatedFields THEN Quotient(row, field) ELSE Column(row, field)

\* the sort value of a row under the key of the last call
SortValue(row) == FieldValue(row, SORT_OPTIONS[call.key].field)

SameSortValue(a, b) ==
    /\ ~ SqlLess(SortValue(a), SortValue(b))
    /\ ~ SqlLess(SortValue(b), SortValue(a))

Reverse(s) == [i \in 1..Len(s) |-> s[Len(s) + 1 - i]]

\* C1: the list find_similar_players returns holds no record with the
\* target's id, whichever strategy ran and whether or not a fallback ran.
C1_TargetExcluded ==
    call.op = "find_similar_players" =>
        \A i \in DOMAIN result.rows : result.rows[i].id # call.target

\* a hybrid query whose NLP part fell back, with results of both parts
C1_Witness ==
    /\ call.op = "find_similar_players"
    /\ call.method = "hybrid"
    /\ call.faults = {"nlp"}
    /\ \E i, j \in DOMAIN result.rows :
          /\ result.rows[i].similarity_score = (4 * FallbackScore) \div 10
          /\ result.rows[j].similarity_score > FallbackScore

\* C2: apply_sorting with a valid key (stored or derived), in either
\* direction, returns every record of the input exactly once and nothing else.
C2_SortIsPermutation ==
    (call.op = "apply_sorting" /\ is_valid_sort_option(call.key)) =>
        /\ result.status = "ok"
        /\ Len(result.rows) = Cardinality(Rows)
        /\ \A i \in 1..Len(result.rows) : result.rows[i] \in Rows
        /\ \A r \in Rows : Cardinality({i \in 1..Len(result.rows) : result.rows[i] = r}) = 1

C2_Witness ==
    /\ SortedCall
    /\ call.key = "goals_per_90"
    /\ call.reverse
    /\ \E r \in Rows : r.minutes_per_90 = 0
    /\ \E a, b \in Rows : a.id # b.id /\ SameSortValue(a, b)

\* C3: in the sequence apply_sorting returns, two records with equal sort
\* value appear in ascending id order.
C3_TiesInIdOrder ==
    SortedCall =>
        \A i, j \in 1..Len(result.rows) :
            (i < j /\ SameSortValue(result.rows[i], result.rows[j]))
                => result.rows[i].id < result.rows[j].id

\* C4: when no two records have the same sort value, the sequence returned
\* with reverse = TRUE is exactly the reverse of the one returned with
\* reverse = FALSE.
NoTies == \A a, b \in Rows : a.id # b.id => ~ SameSortValue(a, b)

C4_ReverseReverses ==
    (SortedCall /\ NoTies) =>
        \A other \in apply_sorting(Rows, call.key, ~ call.reverse) :
            other.status = "ok" /\ other.rows = Reverse(result.rows)

\* C5: ordering by a derived metric never raises; a record whose denominator
\* is not positive is ranked with the value 0, every other record by
\* numerator divided by denominator.
C5_DerivedMetricValue ==
    (call.op = "apply_sorting" /\ is_valid_sort_option(call.key)
        /\ SORT_OPTIONS[call.key].field \in CalculatedFields) =>
        LET field == SORT_OPTIONS[call.key].field
            q(i) == Quotient(result.rows[i], field)
        IN  /\ result.status = "ok"
            /\ \A i \in 1..Len(result.rows) :
                  /\ Denominator(result.rows[i], field) <= 0 => result.calc[i] = Val(0, 1)
                  /\ result.calc[i].num * q(i).den = q(i).num * result.calc[i].den
            /\ \A i, j \in 1..Len(result.rows) : i < j =>
                  IF call.reverse THEN ~ SqlLess(q(i), q(j)) ELSE ~ SqlLess(q(j), q(i))

\* ==================================================== properties: registry
\* C6: get_sort_field and apply_sorting with a key that is not registered
\* raise ValueError, and apply_sorting raises before it applies any
\* queryset operation, so it produces no rows.
C6_UnknownKeyFailsFast ==
    (call.op \in {"apply_sorting", "get_sort_field"} /\ last_write[call.key] = None) =>
        /\ result.status = "ValueError"
        /\ result.rows = <<>>
        /\ result.ops = <<>>

C6_Witness ==
    /\ call.op = "apply_sorting"
    /\ call.key = "goals_per_90"
    /\ last_write["goals_per_90"] = None
    /\ result.status = "ValueError"

\* C7: an apply_sorting(records, key, reverse) that immediately follows
\* add_sort_option(key, ..) succeeds and returns the records ordered by the
\* field just registered.
OrderedByField(rows, field, reverse) ==
    LET v(row) == FieldValue(row, field)
    IN  \A i, j \in 1..Len(rows) : i < j =>
            IF reverse THEN ~ SqlLess(v(rows[i]), v(rows[j]))
                       ELSE ~ SqlLess(v(rows[j]), v(rows[i]))

C7_AddThenSort ==
    [][(call.op = "add_sort_option" /\ call'.op = "apply_sorting" /\ call'.key = call.key)
          => /\ result'.status = "ok"
             /\ Len(result'.rows) = NumPlayers
             /\ OrderedByField(result'.rows, call.field, call'.reverse)]_vars

\* C8: is_valid_sort_option(k) is true exactly when the last operation on k
\* was an add (or k is built in and was never removed); get_sort_field(k)
\* returns the field of the most recent add; remove_sort_option(k) returns
\* true iff k was present just before; a remove leaves every other key's
\* entry unchanged.
RegistryFollowsHistory ==
    /\ \A k \in TrackedKeys :
          /\ is_valid_sort_option(k) <=> last_write[k] # None
          /\ last_write[k] # None =>
                get_sort_field(k) = [status |-> "ok", value |-> last_write[k]]
    /\ call.op = "is_valid_sort_option" => result.flag = (last_write[call.key] # None)
    /\ (call.op = "get_sort_field" /\ last_write[call.key] # None) =>
          result.status = "ok" /\ result.field = last_write[call.key]

RemoveStep ==
    call'.op = "remove_sort_option" =>
        /\ result'.flag = (last_write[call'.key] # None)
        /\ \A k \in TrackedKeys \ {call'.key} :
              /\ (k \in DOMAIN SORT_OPTIONS') = (k \in DOMAIN SORT_OPTIONS)
              /\ k \in DOMAIN SORT_OPTIONS => SORT_OPTIONS'[k] = SORT_OPTIONS[k]

C8_RegistryLastWriteWins == [] RegistryFollowsHistory /\ [][RemoveStep]_vars

C8_Witness ==
    /\ call.op = "remove_sort_option"
    /\ call.key = "custom"
    /\ result.flag = FALSE
    /\ last_write["goals_per_90"] = "assists"

\* C9: in every reachable state of the registry every key resolves to a
\* stored record attribute or to one of the four derived-metric tags.
C9_FieldsResolve ==
    \A k \in DOMAIN SORT_OPTIONS :
        SORT_OPTIONS[k].field \in ModelFields \cup CalculatedFields

\* C10: get_sort_options with a category filter (any string, the empty
\* string included) returns exactly the entries whose category equals the
\* filter; with no filter it returns every entry.
C10_CategoryFilter ==
    call.op = "get_sort_options" =>
        LET keys == IF call.category = None THEN DOMAIN SORT_OPTIONS
                    ELSE {k \in DOMAIN SORT_OPTIONS :
                             SORT_OPTIONS[k].category = call.category}
        IN  /\ DOMAIN result.options = keys
            /\ \A k \in keys : result.options[k] = SORT_OPTIONS[k]

\* C28: apply_sorting chooses between the stored-field path and the
\* derived-metric path by the field the key resolves to, not by the key: a
\* key of any name whose field is a derived-metric tag is ordered by the
\* metric computed for each record, a key named like a derived tag whose
\* field is a stored column is ordered by that column
OrderedByComputedMetric ==
    /\ result.ops = <<"annotate", "order_by">>
    /\ Len(result.calc) = Len(result.rows)
    /\ \A i, j \in 1..Len(result.rows) : i < j =>
           IF call.reverse THEN ~ SqlLess(result.calc[i], result.calc[j])
                           ELSE ~ SqlLess(result.calc[j], result.calc[i])

C28_PathByResolvedField ==
    (call.op = "apply_sorting" /\ is_valid_sort_option(call.key)) =>
        LET field == SORT_OPTIONS[call.key].field
        IN  /\ field \in CalculatedFields
               => /\ result.status = "ok"
                  /\ Len(result.rows) = NumPlayers
                  /\ OrderedByComputedMetric
            /\ field \in ModelFields
               => /\ result.status = "ok"
                  /\ Len(result.rows) = NumPlayers
                  /\ result.ops = <<"order_by">>
                  /\ OrderedByField(result.rows, field, call.reverse)

\* the key "custom" registered with a derived-metric tag is ordered on the
\* derived-metric path while the key "goals_per_90" is registered with a
\* stored column
C28_Witness ==
    /\ call.op = "apply_sorting" /\ call.key = "custom"
    /\ is_valid_sort_option("custom")
    /\ SORT_OPTIONS["custom"].field = "minutes_per_game"
    /\ is_valid_sort_option("goals_per_90")
    /\ SORT_OPTIONS["goals_per_90"].field = "assists"
    /\ result.status = "ok"
    /\ result.ops = <<"annotate", "order_by">>

\* the key "goals_per_90" re-registered with a stored column is ordered on
\* the stored-field path
RenamedTagOnStoredPath ==
    /\ call.op = "apply_sorting" /\ call.key = "goals_per_90"
    /\ is_valid_sort_option("goals_per_90")
    /\ SORT_OPTIONS["goals_per_90"].field = "assists"
    /\ result.status = "ok"
    /\ result.ops = <<"order_by">>

\* ================================================== properties: similarity
\* the call just made was find_similar_players
SimilarCall == call.op = "find_similar_players"

\* the record the last similarity call was made for
Target == players[call.target]

ValidMethods == {"statistical", "nlp", "hybrid"}

\* C11: find_similar_players with a method other than statistical, nlp or
\* hybrid raises ValueError to its caller; the fallback search does not
\* absorb it and no list is returned.
C11_InvalidMethodRaises ==
    (SimilarCall /\ call.method \notin ValidMethods) =>
        result.status = "ValueError" /\ result.rows = <<>>

C11_Witness ==
    /\ SimilarCall
    /\ call.method = "semantic"
    /\ call.limit > 0
    /\ call.faults = {}
    /\ similar_players_fallback(Target) # {}
    /\ result.status = "ValueError"

\* C12: for a positive limit and each of the three methods, with or without
\* a fallback, the returned list is at most limit long.
C12_AtMostLimit ==
    (SimilarCall /\ call.method \in ValidMethods /\ call.limit > 0) =>
        Len(result.rows) <= call.limit

C12_Witness ==
    /\ SimilarCall
    /\ call.method = "hybrid"
    /\ call.limit = 1
    /\ call.faults = {}
    /\ Cardinality(similar_players_nlp(Target)) = 2
    /\ \A r \in similar_players_nlp(Target) :
          _text_similarity(generate_style_description(Target),
                           generate_style_description(r)) >= similarity_threshold
    /\ Len(result.rows) = 1

\* C13: when no candidate's score reaches the threshold and nothing raises,
\* the statistical and the NLP search return the empty list; the fallback
\* search is not entered.
StatisticalScores ==
    {_cosine_similarity(get_statistics_vector(Target), get_statistics_vector(r)) :
        r \in similar_players_statistical(Target)}

NlpScores ==
    {_text_similarity(generate_style_description(Target),
                      generate_style_description(r)) :
        r \in similar_players_nlp(Target)}

C13_BelowThresholdIsEmpty ==
    /\ (SimilarCall /\ call.method = "statistical" /\ "statistical" \notin call.faults
           /\ \A v \in StatisticalScores : v < similarity_threshold)
        => result.status = "ok" /\ result.rows = <<>>
    /\ (SimilarCall /\ call.method = "nlp" /\ "nlp" \notin call.faults
           /\ \A v \in NlpScores : v < similarity_threshold)
        => result.status = "ok" /\ result.rows = <<>>

C13_Witness ==
    /\ SimilarCall
    /\ call.method = "statistical"
    /\ call.faults = {}
    /\ call.limit > 0
    /\ StatisticalScores # {}
    /\ similar_players_fallback(Target) # {}
    /\ result.rows = <<>>

\* C14: for each of the three methods a fault raised while the search is
\* computed never reaches the caller as an exception, and it is answered
\* with a fallback-ranked list: never with a bare empty list when the
\* fallback has candidates.
FaultRaised ==
    \/ call.method \in {"statistical", "nlp"} /\ call.method \in call.faults
    \/ call.method = "hybrid" /\ call.faults \cap {"statistical", "nlp", "hybrid"} # {}

C14_FaultAnsweredByFallback ==
    (SimilarCall /\ FaultRaised) =>
        /\ result.status = "ok"
        /\ (call.limit > 0 /\ similar_players_fallback(Target) # {})
              => result.rows # <<>>

\* C15: find_similar_players leaves the stored records as they were (their
\* stored similarity_score, style_description and style_embedding included);
\* a returned record differs from its stored record in the attached
\* similarity_score only, and that score is the one it was ranked by.
StoreUnchangedStep == call'.op = "find_similar_players" => players' = players

ScoresAttached ==
    SimilarCall =>
        /\ \A i \in DOMAIN result.rows :
              LET r == result.rows[i]
                  stored == players[r.id]
              IN  /\ [r EXCEPT !.similarity_score = stored.similarity_score] = stored
                  /\ (call.method = "statistical" /\ ~ FaultRaised) =>
                        r.similarity_score =
                            _cosine_similarity(get_statistics_vector(Target),
                                               get_statistics_vector(stored))
                  /\ (call.method = "nlp" /\ ~ FaultRaised) =>
                        r.similarity_score =
                            _text_similarity(generate_style_description(Target),
                                             generate_style_description(stored))
                  /\ (call.method \in call.faults) =>
                        r.similarity_score = FallbackScore
        /\ \A i, j \in DOMAIN result.rows :
              i < j => result.rows[i].similarity_score >= result.rows[j].similarity_score

C15_ScoreOnlyInMemory == [] ScoresAttached /\ [][StoreUnchangedStep]_vars

C15_Witness ==
    /\ SimilarCall
    /\ call.method = "statistical"
    /\ call.faults = {}
    /\ Len(result.rows) = 2
    /\ result.rows[1].similarity_score > result.rows[2].similarity_score
    /\ \A i \in DOMAIN players : players[i].similarity_score = NULL

\* a row without the two cached style fields
RawStats(row) == [row EXCEPT !.style_description = <<>>, !.style_embedding = <<>>]

\* every outcome of one query on the present store: status, and the
\* returned records (by their raw statistics) in order with their scores
Outcomes(i, limit, method, faults) ==
    {[status |-> out.status,
      rows |-> [k \in DOMAIN out.rows |-> RawStats(out.rows[k])]] :
        out \in find_similar_players(players[i], limit, method, faults)}

\* C16: two stores that agree on all raw statistics and differ only in the
\* cached style_description / style_embedding (empty, stale or fresh) give
\* the same results (records, order, scores) for every target, limit and
\* method: a result obtained from a store is still a result of the same
\* query after the style fields of the store were cleared, regenerated or
\* made stale, in whatever order
C16_CacheNeverRead ==
    SimilarCall =>
        [status |-> result.status,
         rows |-> [k \in DOMAIN result.rows |-> RawStats(result.rows[k])]]
            \in Outcomes(call.target, call.limit, call.method, call.faults)

\* a query answered from a store with fresh style fields, one of which has
\* since become stale: read instead of the statistics, the stale description
\* would take a returned candidate below the threshold
C16_Witness ==
    /\ SimilarCall /\ call.method = "nlp" /\ call.faults = {} /\ call.limit = 2
    /\ \E k \in DOMAIN result.rows :
        LET j == result.rows[k].id
        IN  /\ result.rows[k].style_description = generate_style_description(players[j])
            /\ players[j].style_description # <<>>
            /\ players[j].style_description # generate_style_description(players[j])
            /\ Target.style_description = generate_style_description(Target)
            /\ _text_similarity(Target.style_description, players[j].style_description)
                   < similarity_threshold

\* the candidates of the method just called that pass the threshold, with
\* their scores attached
PassingCandidates ==
    IF call.method = "statistical"
    THEN {[r EXCEPT !.similarity_score =
              _cosine_similarity(get_statistics_vector(Target),
                                 get_statistics_vector(r))] :
             r \in {c \in similar_players_statistical(Target) :
                       _cosine_similarity(get_statistics_vector(Target),
                                          get_statistics_vector(c))
                           >= similarity_threshold}}
    ELSE {[r EXCEPT !.similarity_score =
              _text_similarity(generate_style_description(Target),
                               generate_style_description(r))] :
             r \in {c \in similar_players_nlp(Target) :
                       _text_similarity(generate_style_description(Target),
                                        generate_style_description(c))
                           >= similarity_threshold}}

\* a ranks before b: the higher score first, equal scores by ascending id
RanksBefore(a, b) ==
    \/ a.similarity_score > b.similarity_score
    \/ a.similarity_score = b.similarity_score /\ a.id < b.id

\* C19: the result of the statistical and of the NLP strategy is the first
\* `limit` of the candidates with score >= threshold, sorted by score
\* descending and, among equal scores, by candidate id ascending; no omitted
\* candidate ranks before a returned one
C19_RankedByScoreThenId ==
    (/\ SimilarCall /\ call.method \in {"statistical", "nlp"}
     /\ call.method \notin call.faults /\ call.limit > 0)
    => /\ result.status = "ok"
       /\ Len(result.rows) = Min(call.limit, Cardinality(PassingCandidates))
       /\ \A k \in DOMAIN result.rows : result.rows[k] \in PassingCandidates
       /\ \A k \in 1..Len(result.rows) - 1 :
              RanksBefore(result.rows[k], result.rows[k + 1])
       /\ \A c \in PassingCandidates :
              (\A k \in DOMAIN result.rows : result.rows[k].id # c.id)
              => \A k \in DOMAIN result.rows : RanksBefore(result.rows[k], c)

\* the two rows hold the same values in every column but the id
SameStatistics(row, other) == [row EXCEPT !.id = 0] = [other EXCEPT !.id = 0]

\* C20: a candidate whose statistics are identical to the target's (same
\* position and competition, another id) gets the statistical score 1.0
\* exactly, so a statistical query with room for every candidate returns it,
\* with that score, at every threshold up to 1.0
C20_TwinScoresOne ==
    (/\ SimilarCall /\ call.method = "statistical"
     /\ "statistical" \notin call.faults
     /\ call.limit >= Len(players) - 1
     /\ similarity_threshold <= ScoreScale)
    => \A i \in DOMAIN players :
           (players[i].id # Target.id /\ SameStatistics(players[i], Target))
           => \E k \in DOMAIN result.rows :
                  /\ result.rows[k].id = players[i].id
                  /\ result.rows[k].similarity_score = ScoreScale

\* -------------------------------------------------------- concurrency
\* a reading call that ran while other threads changed the registry has
\* returned or raised
ReadingDone ==
    /\ call.op \in {"apply_sorting", "get_sort_field"}
    /\ call.pc = "done"
    /\ result.status # "running"

\* the call ended as the ordering by the field it read ends
EndsAsOrderingBy(field) ==
    IF call.op = "get_sort_field"
    THEN result.status = "ok" /\ result.field = field
    ELSE \E out \in sort_by_field(Rows, field, call.reverse) :
             /\ result.status = out.status
             /\ result.rows = out.rows

\* C27: apply_sorting(records, k, reverse) or get_sort_field(k) running
\* concurrently with remove_sort_option / add_sort_option, without a lock,
\* either raises the invalid-sort-option error or uses a field k was mapped
\* to at some point during the call; it fails with no other error
C27_ReaderRaisesOrUsesField ==
    ReadingDone =>
        \/ result.status = "ValueError"
        \/ /\ call.field \in call.seen
           /\ EndsAsOrderingBy(call.field)

\* the outcomes of a reading call: the invalid-sort-option error, a field
\* the key was mapped to during the call, or the KeyError of the lookup
\* after a removal between the validity check and the lookup
ReaderOutcomes ==
    ReadingDone =>
        \/ result.status \in {"ValueError", "KeyError"}
        \/ /\ call.field \in call.seen
           /\ EndsAsOrderingBy(call.field)

\* ------------------------------------------------------ descriptions
StyleCall == call.op = "generate_style_description"

\* no statistic of the row is above the threshold of a qualifier phrase,
\* and its age is neither below 23 nor above 30
NoQualifierFires(row) ==
    /\ row.goals <= 10 /\ row.assists <= 5
    /\ row.tackles <= 20
    /\ row.pass_completion_percentage <= 85
    /\ row.save_percentage <= 75
    /\ row.dribble_success_percentage <= 60
    /\ row.shots_on_target_percentage <= 50
    /\ row.progressive_passes <= 50 /\ row.progressive_carries <= 30
    /\ row.age >= 23 /\ row.age <= 30

\* C26: for every record for which no qualifier phrase fires (no statistic
\* and no age threshold is met) generate_style_description returns
\* "versatile player", whatever the position of the record
C26_VersatileWithoutQualifier ==
    (StyleCall /\ NoQualifierFires(Target))
    => result.text = <<"versatile", "player">>

\* without a qualifier the description is the base phrase of the position,
\* and "versatile player" only for a position without a known tag
BasePhraseWithoutQualifier ==
    (StyleCall /\ NoQualifierFires(Target))
    => result.text =
          IF PositionHas(Target.position, "FW") THEN <<"attacking", "player">>
          ELSE IF PositionHas(Target.position, "MF") THEN <<"midfielder">>
          ELSE IF PositionHas(Target.position, "DF") THEN <<"defender">>
          ELSE IF PositionHas(Target.position, "GK") THEN <<"goalkeeper">>
          ELSE <<"versatile", "player">>

\* ------------------------------------------------------------- hybrid
HybridCall ==
    SimilarCall /\ call.method = "hybrid" /\ "hybrid" \notin call.faults

\* the ids of a list of records
Ids(s) == {s[i].id : i \in DOMAIN s}

\* the score a sub-strategy's list gives to an id: 0.0 when it is absent
ScoreIn(s, id) ==
    IF id \in Ids(s)
    THEN s[CHOOSE i \in DOMAIN s : s[i].id = id].similarity_score
    ELSE 0

\* 0.6 * statistical_score + 0.4 * nlp_score
Fused(statistical, nlp, id) ==
    (6 * ScoreIn(statistical, id) + 4 * ScoreIn(nlp, id)) \div 10

\* the lists the two sub-strategies can return when asked for 2 * limit
StatisticalLists == _find_statistical_similarities(Target, 2 * call.limit, call.faults)

NlpLists == _find_nlp_similarities(Target, 2 * call.limit, call.faults)

\* the length of a list of n entries cut by [:limit]
CutLength(n, limit) == IF limit >= 0 THEN Min(limit, n) ELSE Max(n + limit, 0)

\* the result is the fusion of the two lists: one row per id of their
\* union, scored 0.6 * statistical + 0.4 * nlp, highest first, cut to limit
FusionOf(statistical, nlp) ==
    LET union == Ids(statistical) \cup Ids(nlp)
    IN  /\ Len(result.rows) = CutLength(Cardinality(union), call.limit)
        /\ \A k \in DOMAIN result.rows :
               /\ result.rows[k].id \in union
               /\ result.rows[k].similarity_score
                      = Fused(statistical, nlp, result.rows[k].id)
        /\ \A k, l \in DOMAIN result.rows :
               k < l => /\ result.rows[k].id # result.rows[l].id
                        /\ result.rows[k].similarity_score
                               >= result.rows[l].similarity_score
        /\ \A id \in union \ Ids(result.rows) :
               \A k \in DOMAIN result.rows :
                   result.rows[k].similarity_score >= Fused(statistical, nlp, id)

\* C22: the hybrid strategy asks each sub-strategy for 2 * limit
\* candidates, unites them by id, scores every candidate
\* 0.6 * statistical_score + 0.4 * nlp_score with 0.0 for a sub-strategy
\* that did not return it, sorts by that score descending and cuts to limit
C22_HybridFusion ==
    HybridCall =>
        /\ result.status = "ok"
        /\ \E statistical \in StatisticalLists, nlp \in NlpLists :
               FusionOf(statistical, nlp)

\* a hybrid query without fault whose result holds a candidate only the
\* statistical strategy returned and a candidate both returned
C22_Witness ==
    /\ HybridCall /\ call.faults = {} /\ call.limit > 0
    /\ \E statistical \in StatisticalLists, nlp \in NlpLists :
          /\ FusionOf(statistical, nlp)
          /\ \E k \in DOMAIN result.rows :
                 /\ result.rows[k].id \in Ids(statistical) \ Ids(nlp)
                 /\ result.rows[k].similarity_score > 0
          /\ \E k \in DOMAIN result.rows :
                 result.rows[k].id \in Ids(statistical) \cap Ids(nlp)

\* C23: the hybrid strategy applies no threshold after the fusion: when
\* the candidates the two sub-strategies returned are at most `limit`, the
\* hybrid result holds every one of them, whatever its fused score; only
\* the cut to `limit` removes candidates
C23_NoThresholdAfterFusion ==
    HybridCall =>
        \E statistical \in StatisticalLists, nlp \in NlpLists :
            LET union == Ids(statistical) \cup Ids(nlp)
            IN  /\ Ids(result.rows) \subseteq union
                /\ Cardinality(union) <= call.limit => Ids(result.rows) = union

\* a hybrid query without fault that returned all candidates of the two
\* sub-strategies, one of them with a fused score below the threshold
C23_Witness ==
    /\ HybridCall /\ call.faults = {} /\ call.limit > 0
    /\ \E statistical \in StatisticalLists, nlp \in NlpLists :
          /\ Cardinality(Ids(statistical) \cup Ids(nlp)) <= call.limit
          /\ Ids(result.rows) = Ids(statistical) \cup Ids(nlp)
    /\ \E k \in DOMAIN result.rows :
          result.rows[k].similarity_score < similarity_threshold

\* the lists a sub-strategy hands to the fusion: the answers of the
\* fallback search for 2 * limit when the sub-strategy faults, its own
\* answers otherwise
AbsorbedStatisticalLists ==
    IF "statistical" \in call.faults
    THEN _fallback_similarity_search(Target, 2 * call.limit, call.faults)
    ELSE _find_statistical_similarities(Target, 2 * call.limit, {})

AbsorbedNlpLists ==
    IF "nlp" \in call.faults
    THEN _fallback_similarity_search(Target, 2 * call.limit, call.faults)
    ELSE _find_nlp_similarities(Target, 2 * call.limit, {})

\* the returned rows that only the list `mine` holds carry the score `fused`
OnlyFrom(mine, other, fused) ==
    \A k \in DOMAIN result.rows :
        result.rows[k].id \in Ids(mine) \ Ids(other)
        => /\ result.rows[k].similarity_score = fused
           /\ result.rows[k].similarity_score # FallbackScore

NlpFallbackFused ==
    /\ HybridCall /\ call.faults = {"nlp"} /\ call.limit > 0
    /\ \E statistical \in AbsorbedStatisticalLists, nlp \in AbsorbedNlpLists :
          /\ FusionOf(statistical, nlp)
          /\ \E k \in DOMAIN result.rows :
                 /\ result.rows[k].id \in Ids(nlp) \ Ids(statistical)
                 /\ result.rows[k].similarity_score = (4 * FallbackScore) \div 10

\* ----------------------------------------------------------- fallback
\* the query was answered by the fallback path alone, and the fallback
\* query itself ran
FallbackAnswered ==
    /\ SimilarCall
    /\ call.method \in {"statistical", "nlp", "hybrid"}
    /\ call.method \in call.faults
    /\ "fallback" \notin call.faults

\* the stored records of the target's position and competition, aged
\* within 3 years of the target, the target excluded
FallbackPool ==
    {players[i] : i \in {j \in DOMAIN players :
                             /\ players[j].position = Target.position
                             /\ players[j].competition = Target.competition
                             /\ players[j].age - Target.age \in -3..3
                             /\ players[j].id # Target.id}}

\* a is not after b in the order goals descending, assists descending
GoalsThenAssists(a, b) ==
    \/ a.goals > b.goals
    \/ a.goals = b.goals /\ a.assists >= b.assists

\* C24: the fallback path returns exactly the first `limit` records, by
\* goals descending then assists descending, of the records that share the
\* target's position and competition, are aged within 3 years of it
\* (inclusive) and are not the target; every returned record carries the
\* score 0.5, and the threshold is not applied
C24_FallbackRanking ==
    (FallbackAnswered /\ call.limit >= 0) =>
        /\ result.status = "ok"
        /\ Len(result.rows) = Min(call.limit, Cardinality(FallbackPool))
        /\ \A k \in DOMAIN result.rows :
               /\ result.rows[k].similarity_score = FallbackScore
               /\ players[result.rows[k].id] \in FallbackPool
               /\ [result.rows[k] EXCEPT !.similarity_score = NULL]
                      = players[result.rows[k].id]
        /\ \A k, l \in DOMAIN result.rows :
               k < l => /\ result.rows[k].id # result.rows[l].id
                        /\ GoalsThenAssists(result.rows[k], result.rows[l])
        /\ \A c \in FallbackPool :
               c.id \notin Ids(result.rows)
               => \A k \in DOMAIN result.rows : GoalsThenAssists(result.rows[k], c)

\* a fallback answer under the threshold 0.7: one of two candidates, the
\* one with more assists among equal goals, three years older than the
\* target
C24_Witness ==
    /\ FallbackAnswered /\ call.limit = 1
    /\ similarity_threshold > FallbackScore
    /\ Cardinality(FallbackPool) = 2
    /\ Len(result.rows) = 1
    /\ result.rows[1].age = Target.age + 3
    /\ \E c \in FallbackPool :
          c.goals = result.rows[1].goals /\ c.assists < result.rows[1].assists

\* -------------------------------------------------------------- texts
TextSimilarityCall == call.op = "_text_similarity"

\* the lower-cased whitespace-separated words of a text: the stretches
\* without a blank that a blank or an end of the text bounds on both sides
WordSet(text) ==
    {[k \in 1..(run[2] - run[1] + 1) |-> LowerChar(text[run[1] + k - 1])] :
        run \in {r \in (DOMAIN text) \X (DOMAIN text) :
                    /\ r[1] <= r[2]
                    /\ \A i \in r[1]..r[2] : text[i] # " "
                    /\ r[1] = 1 \/ text[r[1] - 1] = " "
                    /\ r[2] = Len(text) \/ text[r[2] + 1] = " "}}

\* |A & B| / |A | B|, 0 when either set is empty
Jaccard(A, B) ==
    IF A = {} \/ B = {} THEN 0
    ELSE (ScoreScale * Cardinality(A \cap B)) \div Cardinality(A \cup B)

\* C25: _text_similarity of two descriptions is |A & B| / |A | B| over
\* their lower-cased whitespace-separated word sets A and B, and 0 when
\* either set is empty; so it is symmetric, lies in [0, 1], and is 1
\* exactly when the two word sets are equal and not empty
C25_JaccardOfWordSets ==
    TextSimilarityCall =>
        LET A == WordSet(call.args[1])
            B == WordSet(call.args[2])
            score == result.calc[1]
        IN  /\ score = Jaccard(A, B)
            /\ score = _text_similarity(Split(Lower(call.args[2])),
                                        Split(Lower(call.args[1])))
            /\ score \in 0..ScoreScale
            /\ score = ScoreScale <=> (A = B /\ A # {})

\* two different texts, the first with a letter in upper case, that have
\* the same two words
C25_Witness ==
    /\ TextSimilarityCall
    /\ call.args[1] # call.args[2]
    /\ Len(call.args[1]) = MaxTextLen
    /\ \E i \in DOMAIN call.args[1] : call.args[1][i] \in {"A", "B"}
    /\ Cardinality(WordSet(call.args[1])) = 2
    /\ result.calc = <<ScoreScale>>

\* ==================================================== properties: rows
VectorCall == call.op = "get_statistics_vector"

\* the column a component of the statistics vector is computed from, in the
\* order of the components
SourceColumns ==
    <<"goals", "assists", "shots_on_target_percentage",
      "pass_completion_percentage", "dribble_success_percentage", "tackles",
      "interceptions", "progressive_passes", "progressive_carries", "age">>

\* the components that divide by minutes_per_90
Per90Components == {1, 2, 6, 7, 8, 9}

\* C21: for a record with minutes_per_90 <= 0 the goals-per-90,
\* assists-per-90 and every other per-90 component of get_statistics_vector
\* is 0 (no division is made), and for every record a component whose
\* source value is <= 0 is 0
C21_NoRateWithoutSource ==
    VectorCall =>
        /\ result.status = "ok"
        /\ Target.minutes_per_90 <= 0
           => \A d \in Per90Components : result.calc[d] = 0
        /\ \A d \in DOMAIN SourceColumns :
               Target[SourceColumns[d]] <= 0 => result.calc[d] = 0

\* the first half of C21 alone: without playing time every per-90
\* component is 0
PerNinetyZeroWithoutMinutes ==
    (VectorCall /\ Target.minutes_per_90 <= 0)
    => \A d \in Per90Components : result.calc[d] = 0

\* a row the validators of the model accept: counts and playing time not
\* negative, percentages between 0 and 100, a positive age
ValidRecord(row) ==
    /\ \A c \in {"goals", "assists", "tackles", "interceptions",
                  "progressive_passes", "progressive_carries"} : row[c] >= 0
    /\ row.minutes_per_90 >= 0
    /\ \A c \in {"shots_on_target_percentage", "pass_completion_percentage",
                  "dribble_success_percentage"} : row[c] \in 0..100
    /\ row.age > 0

CosineCall == call.op = "_cosine_similarity"

\* C29: for every record with non-negative statistics, percentages in
\* [0, 100] and a positive age, every component of get_statistics_vector
\* lies in [0, 1] and the age component is positive, so the vector is not
\* the zero vector, and the cosine of the vectors of two such records is
\* greater than 0 and at most 1
C29_ScoreInUnitInterval ==
    /\ (VectorCall /\ ValidRecord(Target))
       => /\ \A d \in DOMAIN result.calc : result.calc[d] \in 0..VecScale
          /\ result.calc[Len(result.calc)] > 0
    /\ (CosineCall /\ \A i \in DOMAIN players : ValidRecord(players[i]))
       => /\ result.calc[1] > 0
          /\ result.calc[1] <= ScoreScale
          /\ result.calc[2] = 0

\* the rest of C29: the components of a valid record lie in [0, 1], the age
\* component is positive, and the cosine of two such vectors is positive
ComponentsInUnitIntervalAndScorePositive ==
    /\ (VectorCall /\ ValidRecord(Target))
       => /\ \A d \in DOMAIN result.calc : result.calc[d] \in 0..VecScale
          /\ result.calc[Len(result.calc)] > 0
          /\ \E d \in DOMAIN result.calc : result.calc[d] # 0
    /\ (CosineCall /\ \A i \in DOMAIN players : ValidRecord(players[i]))
       => /\ result.calc[1] > 0
          /\ \A v \in {1, 2} : \E d \in DOMAIN call.args[v] : call.args[v][d] # 0

\* the cosines above 1.0 are those of two rows with the same three or six
\* components at 1.0 and the others at 0.0
AboveOneOnlyBetweenTwins ==
    (CosineCall /\ result.calc[2] = 1)
    => /\ call.args[1] = call.args[2]
       /\ Cardinality({d \in DOMAIN call.args[1] : call.args[1][d] = VecScale})
              \in {3, 6}

\* ============================================== properties: request layer
\* the request just answered asked to order records by a key that is not
\* registered
UnknownSortKeyRequest ==
    /\ call.op \in {"list", "leaderboard"}
    /\ call.key \notin {None, ""}
    /\ ~ is_valid_sort_option(call.key)

\* C17: every request that asks to order records by an unknown sort key
\* (sort_by of the list endpoint, stat of the leaderboard) is answered with
\* the invalid-sort-option error that names the offending key and lists the
\* valid keys, and never with a list of records
C17_UnknownSortKeyRejected ==
    UnknownSortKeyRequest =>
        /\ result.status = "400"
        /\ result.rows = <<>>
        /\ result.field = call.key
        /\ DOMAIN result.options = DOMAIN SORT_OPTIONS

\* C18: for every integer limit of the request, zero and negative ones
\* included, the similar endpoint returns at most 20 records and the
\* leaderboard at most 100
C18_LimitCapped ==
    /\ call.op = "similar" => Len(result.rows) <= SimilarMaxLimit
    /\ call.op = "leaderboard" => Len(result.rows) <= LeaderboardMaxLimit

====
